---- MODULE Spec2Model ----
(***************************************************************************)
(* Model of the replay-session orchestrator of rs-clips:                   *)
(*   - ReplaySettings::sanitize              (src/app/src/capture.rs)      *)
(*   - ReplayController, the process supervisor (src/app/src/capture.rs)   *)
(*   - run_capture_loop / maybe_handle_game_detection (src/app/src/main.rs)*)
(*                                                                         *)
(* Three specifications share the variables:                               *)
(*   SpecSanitize  sanitize applied to every settings value of a bounded   *)
(*                 input set;                                              *)
(*   SpecCtl       the public operations of one ReplayController called in *)
(*                 any order, with the recorder free to exit on its own;   *)
(*   Spec          the capture session: startup, the event loop's action   *)
(*                 handlers, the detection tick, the clip hand-over.       *)
(*                                                                         *)
(* Strings the code inspects character by character (track names, target)  *)
(* are sequences of one-character strings; messages and error texts, which *)
(* the code only stores and forwards, are TLA+ strings.                    *)
(***************************************************************************)
EXTENDS Integers, Sequences, FiniteSets, TLC

\* ------------------------------------------------------------------ bounds
MaxNameLen == 1     \* longest track name / target drawn as an input
MaxTracks == 2      \* longest audio-track list drawn as an input
MaxNum == 2         \* largest numeric settings field drawn as an input
MaxPid == 2         \* process slots the OS grants the supervisor

\* --------------------------------------------------------------- constants
SIGINT == 2
SIGUSR1 == 10
SIGRTMIN == 34

DefaultBufferSeconds == 60
DefaultBitrate == 60000
DefaultFps == 60

\* "default_input" (capture.rs:56)
DefaultTrack == <<"d","e","f","a","u","l","t","_","i","n","p","u","t">>

\* Option::None for the child handle, a path and a message; a message is
\* <<text>> or, when it is formatted around an error, <<prefix, error>>
NoChild == 0
NoPath == 0
NoMessage == <<>>
\* Option<u32>::None for a save duration
NoDuration == -1

\* ----------------------------------------------------------------- strings
IsWhitespace(ch) == ch \in {" ", "\t", "\n"}

RECURSIVE TrimStart(_)
TrimStart(s) ==
    IF s = <<>> THEN s
    ELSE IF IsWhitespace(Head(s)) THEN TrimStart(Tail(s)) ELSE s

RECURSIVE TrimEnd(_)
TrimEnd(s) ==
    IF s = <<>> THEN s
    ELSE IF IsWhitespace(s[Len(s)]) THEN TrimEnd(SubSeq(s, 1, Len(s) - 1)) ELSE s

\* str::trim
Trim(s) == TrimEnd(TrimStart(s))

RECURSIVE SeqsUpTo(_, _)
SeqsUpTo(S, n) ==
    IF n = 0 THEN {<<>>}
    ELSE LET shorter == SeqsUpTo(S, n - 1)
         IN  shorter \cup {Append(s, x) : s \in {t \in shorter : Len(t) = n - 1}, x \in S}

\* ---------------------------------------------------------------- settings
\* The fields of ReplaySettings that sanitize, apply_settings and the
\* persisted projection read or write.  binary, restore_portal_session,
\* replay_storage and output_dir are set once at construction and never
\* assigned afterwards.
NameChars == {" ", "m"}
Names == SeqsUpTo(NameChars, MaxNameLen)
TrackLists == SeqsUpTo(Names, MaxTracks)
NumVals == 0..MaxNum

MkSettings(tg, bs, br, f, tr) ==
    [target |-> tg, buffer_seconds |-> bs, bitrate |-> br, fps |-> f, audio_tracks |-> tr]

\* every settings value sanitize is applied to in SpecSanitize
SanitizeInputs ==
    {MkSettings(<<"m">>, bs, br, f, tr) :
        bs \in NumVals, br \in NumVals, f \in NumVals, tr \in TrackLists}

NonBlankTrack(track) == Trim(track) # <<>>

\* audio_tracks.retain(|track| !track.trim().is_empty())
RECURSIVE retain_non_blank(_)
retain_non_blank(v) ==
    IF v = <<>> THEN <<>>
    ELSE IF NonBlankTrack(Head(v)) THEN <<Head(v)>> \o retain_non_blank(Tail(v))
         ELSE retain_non_blank(Tail(v))

\* ReplaySettings::sanitize with the frame-rate default dropped
sanitize_no_fps(s) ==
    LET bs == IF s.buffer_seconds = 0 THEN DefaultBufferSeconds ELSE s.buffer_seconds
        br == IF s.bitrate = 0 THEN DefaultBitrate ELSE s.bitrate
        pushed == IF s.audio_tracks = <<>> THEN <<DefaultTrack>> ELSE s.audio_tracks
    IN  MkSettings(s.target, bs, br, s.fps, retain_non_blank(pushed))

\* ReplaySettings::sanitize
sanitize(s) ==
    LET bs == IF s.buffer_seconds = 0 THEN DefaultBufferSeconds ELSE s.buffer_seconds
        br == IF s.bitrate = 0 THEN DefaultBitrate ELSE s.bitrate
        f  == IF s.fps = 0 THEN DefaultFps ELSE s.fps
        pushed == IF s.audio_tracks = <<>> THEN <<DefaultTrack>> ELSE s.audio_tracks
    IN  MkSettings(s.target, bs, br, f, retain_non_blank(pushed))

\* settings values handed to the controller by the session and by SpecCtl:
\* an ordinary one, the all-zero scenario of the specification, and one
\* whose only track is blank
PlainSettings == MkSettings(<<"m">>, 1, 1, 1, <<<<"m">>>>)
ZeroSettings == MkSettings(<<"m">>, 0, 0, 0, <<>>)
BlankSettings == MkSettings(<<"m">>, 2, 1, 1, <<<<" ">>>>)
SettingsInputs == {PlainSettings, ZeroSettings, BlankSettings}

\* ------------------------------------------------------------------- state
VARIABLES
    sanIn,       \* SpecSanitize: the settings value sanitize is called on
    sanOut,      \* SpecSanitize: <<>> before the call, <<result>> after it
    controller,  \* ReplayController: settings, child, last_saved, last_message
    procs,       \* the OS: state of each process slot, cmdline of the recorder in it
    effects,     \* what the last operation did to the outside world, in order
    ret,         \* the last operation: its name, argument and result
    pc,          \* Spec: where run_capture_mode stands
    replay_mode, \* Spec: the shared ReplayMode
    game_was_running, \* Spec: run_capture_loop's remembered presence flag
    persisted,   \* Spec: the settings file, <<>> when absent
    peerOpen,    \* Spec: the peer has not closed its stream
    psIn,        \* SpecSettingsFile: the PersistedSettings value save is called on
    settings_file, \* SpecSettingsFile: settings.json, <<>> absent, else <<text>>
    psOut,       \* SpecSettingsFile: <<>> before load, <<result>> after it
    failed_uploads_list, \* the FailedUploadsList: its uploads, in order
    files,       \* the paths that exist under the processed directory
    now,         \* the wall clock, in seconds since the epoch
    inbound,     \* SpecTransport: the lines the peer wrote that nobody read yet
    worker,      \* SpecTransport: the wait_for_action worker
    in_flight,   \* SpecDispatch: the save triggers signalled and not yet collected
    visible,     \* SpecVisible: the shared AtomicBool of run_capture_mode
    last_visibility, \* SpecVisible: <<>>, else <<what the last set-visibility sent carried>>
    hotkey_task, \* SpecVisible: the hotkey listener's thread
    session_task \* SpecVisible: the session task's calls of set_overlay_visible

sanVars == <<sanIn, sanOut>>
ctlVars == <<controller, procs, effects, ret>>
loopVars == <<pc, replay_mode, game_was_running, persisted, peerOpen>>
fileVars == <<psIn, settings_file, psOut>>
uploadVars == <<failed_uploads_list, files, now>>
transportVars == <<inbound, worker, in_flight>>
visibleVars == <<visible, last_visibility, hotkey_task, session_task>>
sessionVars == <<controller, procs, loopVars>>
vars == <<sanIn, sanOut, controller, procs, effects, ret,
          pc, replay_mode, game_was_running, persisted, peerOpen,
          psIn, settings_file, psOut, failed_uploads_list, files, now,
          inbound, worker, in_flight,
          visible, last_visibility, hotkey_task, session_task>>

Pids == 1..MaxPid

\* one entry of effects
Ev(e, pid, arg) == [e |-> e, pid |-> pid, arg |-> arg]

\* ReplayController::new
new(settings) ==
    [settings |-> settings, child |-> NoChild, last_saved |-> NoPath,
     last_message |-> NoMessage]

\* A world is the controller together with the process table and the
\* effects of the operation under way; the operations below map worlds to
\* worlds, so that a handler is the composition of the calls it makes.
World(c, p, fx) == [c |-> c, p |-> p, fx |-> fx]

Ok(w) == [w |-> w, ok |-> TRUE, err |-> "", path |-> NoPath]
Err(w, e) == [w |-> w, ok |-> FALSE, err |-> e, path |-> NoPath]

ErrNotRunning == "replay recorder is not running"
ErrSignal == "failed to signal gpu-screen-recorder"
ErrMkdir == "creating replay output directory"
ErrSpawn == "failed to spawn gpu-screen-recorder"
ErrReadDir == "reading replay output directory"

\* a process slot no process occupies
FreeSlot == [st |-> "free", cmd |-> <<>>]

\* ReplayController::current_pid: the pid of a held child that tokio has not
\* reaped; a held child is reaped only by refresh_child, which drops it.
current_pid(c) == c.child

\* ReplayController::refresh_child (try_wait is taken never to fail on a
\* child this process spawned and still holds)
refresh_child(w) ==
    IF w.c.child # NoChild /\ w.p[w.c.child].st = "exited"
    THEN World([w.c EXCEPT !.child = NoChild,
                           !.last_message = <<"Replay recorder exited: ", "status">>],
               [w.p EXCEPT ![w.c.child] = FreeSlot],
               Append(w.fx, Ev("reap", w.c.child, 0)))
    ELSE w

\* ReplayController::build_command: the arguments that depend on settings
build_command(c) ==
    [target |-> c.settings.target, fps |-> c.settings.fps,
     bitrate |-> c.settings.bitrate, buffer_seconds |-> c.settings.buffer_seconds,
     audio |-> retain_non_blank(c.settings.audio_tracks)]

FreePids(p) == {i \in Pids : p[i].st = "free"}

\* ensure_running without the early return on a held child
ensure_running_respawn(w0, mkdirOk, spawnOk) ==
    LET w1 == refresh_child([w0 EXCEPT !.fx = Append(@, Ev("ensure_running", 0, 0))])
    IN  IF ~mkdirOk THEN Err(w1, ErrMkdir)
        ELSE
        LET c2 == [w1.c EXCEPT !.settings = sanitize(@)]
            w2 == [w1 EXCEPT !.c = c2]
        IN  IF ~spawnOk \/ FreePids(w2.p) = {} THEN Err(w2, ErrSpawn)
            ELSE
            LET pid == CHOOSE i \in FreePids(w2.p) : \A j \in FreePids(w2.p) : i <= j
            IN  Ok(World([c2 EXCEPT !.child = pid,
                                    !.last_message = <<"Replay recorder started">>],
                         [w2.p EXCEPT ![pid] = [st |-> "alive", cmd |-> <<build_command(c2)>>]],
                         Append(w2.fx, Ev("spawn", pid, 0))))

\* ReplayController::ensure_running.  mkdirOk: the output directory exists
\* or could be created; spawnOk: the OS starts the binary (it also refuses
\* when no process slot is free).
ensure_running(w0, mkdirOk, spawnOk) ==
    LET w1 == refresh_child([w0 EXCEPT !.fx = Append(@, Ev("ensure_running", 0, 0))])
    IN  IF w1.c.child # NoChild THEN Ok(w1)
        ELSE IF ~mkdirOk THEN Err(w1, ErrMkdir)
        ELSE
        LET c2 == [w1.c EXCEPT !.settings = sanitize(@)]
            w2 == [w1 EXCEPT !.c = c2]
        IN  IF ~spawnOk \/ FreePids(w2.p) = {} THEN Err(w2, ErrSpawn)
            ELSE
            LET pid == CHOOSE i \in FreePids(w2.p) : \A j \in FreePids(w2.p) : i <= j
            IN  Ok(World([c2 EXCEPT !.child = pid,
                                    !.last_message = <<"Replay recorder started">>],
                         [w2.p EXCEPT ![pid] = [st |-> "alive", cmd |-> <<build_command(c2)>>]],
                         Append(w2.fx, Ev("spawn", pid, 0))))

\* stop that signals the child but keeps the handle
stop_keep_handle(w0, killOk, waitOk) ==
    LET w1 == [w0 EXCEPT !.fx = Append(@, Ev("stop", 0, 0))]
    IN  IF w1.c.child = NoChild THEN Ok(w1)
        ELSE
        LET pid == current_pid(w1.c)
            fx2 == Append(w1.fx, Ev(IF killOk THEN "kill" ELSE "kill_failed", pid, SIGINT))
        IN  Ok(World([w1.c EXCEPT !.last_message = <<"Replay recorder stopped">>],
                     [w1.p EXCEPT ![pid].st = "exited"], fx2))

\* stop that reports on a controller holding no child
stop_always_reports(w0, killOk, waitOk) ==
    LET w1 == [w0 EXCEPT !.fx = Append(@, Ev("stop", 0, 0))]
    IN  IF w1.c.child = NoChild
        THEN Ok([w1 EXCEPT !.c.last_message = <<"Replay recorder stopped">>])
        ELSE
        LET pid == current_pid(w1.c)
            fx2 == Append(w1.fx, Ev(IF killOk THEN "kill" ELSE "kill_failed", pid, SIGINT))
            fx3 == Append(fx2, Ev(IF waitOk THEN "wait" ELSE "wait_failed", pid, 0))
        IN  Ok(World([w1.c EXCEPT !.child = NoChild,
                                  !.last_message = <<"Replay recorder stopped">>],
                     [w1.p EXCEPT ![pid] = FreeSlot], fx3))

\* ReplayController::stop.  The SIGINT goes to the pid of the held child,
\* alive or already exited; killOk is the result of its delivery, which the
\* code discards.  wait returns once the process has exited (after the
\* interrupt, or on its own when the interrupt was not delivered) and reaps
\* it; when wait fails (waitOk false) the handle is dropped unreaped and
\* kill_on_drop kills the process.  Either way the slot is free afterwards.
stop(w0, killOk, waitOk) ==
    LET w1 == [w0 EXCEPT !.fx = Append(@, Ev("stop", 0, 0))]
    IN  IF w1.c.child = NoChild THEN Ok(w1)
        ELSE
        LET pid == current_pid(w1.c)
            fx2 == Append(w1.fx, Ev(IF killOk THEN "kill" ELSE "kill_failed", pid, SIGINT))
            fx3 == Append(fx2, Ev(IF waitOk THEN "wait" ELSE "wait_failed", pid, 0))
        IN  Ok(World([w1.c EXCEPT !.child = NoChild,
                                  !.last_message = <<"Replay recorder stopped">>],
                     [w1.p EXCEPT ![pid] = FreeSlot], fx3))

\* apply_settings that stores the settings and leaves a held child running
apply_settings_no_restart(w0, settings, killOk, waitOk, mkdirOk, spawnOk) ==
    Ok([w0 EXCEPT !.c.settings = sanitize(settings),
                  !.fx = Append(@, Ev("apply_settings", 0, 0))])

\* ReplayController::apply_settings
apply_settings(w0, settings, killOk, waitOk, mkdirOk, spawnOk) ==
    LET w1 == [w0 EXCEPT !.c.settings = sanitize(settings),
                         !.fx = Append(@, Ev("apply_settings", 0, 0))]
    IN  IF w1.c.child # NoChild
        THEN ensure_running(stop(w1, killOk, waitOk).w, mkdirOk, spawnOk)
        ELSE Ok(w1)

\* the signal table with the 600 s and 1800 s rows one too low
raw_signal_shifted(duration_secs) ==
    CASE duration_secs = 10 -> SIGRTMIN + 1
      [] duration_secs = 30 -> SIGRTMIN + 2
      [] duration_secs = 60 -> SIGRTMIN + 3
      [] duration_secs = 300 -> SIGRTMIN + 4
      [] duration_secs = 600 -> SIGRTMIN + 4
      [] duration_secs = 1800 -> SIGRTMIN + 5
      [] duration_secs = NoDuration -> SIGUSR1
      [] OTHER -> SIGUSR1

\* save_recent's choice of signal (capture.rs:232-245)
raw_signal(duration_secs) ==
    CASE duration_secs = 10 -> SIGRTMIN + 1
      [] duration_secs = 30 -> SIGRTMIN + 2
      [] duration_secs = 60 -> SIGRTMIN + 3
      [] duration_secs = 300 -> SIGRTMIN + 4
      [] duration_secs = 600 -> SIGRTMIN + 5
      [] duration_secs = 1800 -> SIGRTMIN + 6
      [] duration_secs = NoDuration -> SIGUSR1
      [] OTHER -> SIGUSR1

\* One entry of the output directory as read_dir yields it
DirEntry(path, is_file, modified) ==
    [path |-> path, is_file |-> is_file, modified |-> modified]

\* find_latest_file's loop over the entries, newest being <<>> or <<entry>>
RECURSIVE latest_of(_, _)
latest_of(entries, newest) ==
    IF entries = <<>> THEN newest
    ELSE LET e == Head(entries)
         IN  IF ~e.is_file THEN latest_of(Tail(entries), newest)
             ELSE IF newest # <<>> /\ newest[1].modified >= e.modified
                  THEN latest_of(Tail(entries), newest)
                  ELSE latest_of(Tail(entries), <<e>>)

\* a scan that takes the first entry of the directory
find_latest_file_first_entry(listing) ==
    IF ~listing.ok THEN [ok |-> FALSE, path |-> NoPath]
    ELSE [ok |-> TRUE,
          path |-> IF listing.entries = <<>> THEN NoPath ELSE listing.entries[1].path]

\* find_latest_file: listing.ok is false when read_dir or an entry fails
find_latest_file(listing) ==
    IF ~listing.ok THEN [ok |-> FALSE, path |-> NoPath]
    ELSE LET newest == latest_of(listing.entries, <<>>)
         IN  [ok |-> TRUE, path |-> IF newest = <<>> THEN NoPath ELSE newest[1].path]

\* the directory contents save_recent may find after the flush interval
Listings ==
    { [ok |-> FALSE, entries |-> <<>>],
      [ok |-> TRUE, entries |-> <<>>],
      [ok |-> TRUE, entries |-> <<DirEntry(3, FALSE, 9)>>],
      [ok |-> TRUE, entries |-> <<DirEntry(1, TRUE, 5)>>],
      [ok |-> TRUE, entries |-> <<DirEntry(1, TRUE, 5), DirEntry(3, FALSE, 9), DirEntry(2, TRUE, 7)>>],
      [ok |-> TRUE, entries |-> <<DirEntry(2, TRUE, 7), DirEntry(1, TRUE, 7)>>] }

\* save_recent without the refresh_child that opens it
save_recent_no_refresh(w0, duration_secs, killOk, listing) ==
    LET w1 == [w0 EXCEPT !.fx = Append(@, Ev("save_recent", 0, 0))]
        pid == current_pid(w1.c)
    IN  IF pid = NoChild THEN Err(w1, ErrNotRunning)
        ELSE IF ~killOk
        THEN Err([w1 EXCEPT !.fx = Append(@, Ev("kill_failed", pid, raw_signal(duration_secs)))],
                 ErrSignal)
        ELSE
        LET fx2 == w1.fx \o <<Ev("kill", pid, raw_signal(duration_secs)), Ev("sleep", 0, 2)>>
            found == find_latest_file(listing)
        IN  IF ~found.ok THEN Err([w1 EXCEPT !.fx = fx2], ErrReadDir)
            ELSE [Ok(World([w1.c EXCEPT !.last_saved = found.path,
                                        !.last_message =
                                            IF found.path # NoPath THEN <<"Replay saved">> ELSE @],
                           w1.p, fx2))
                  EXCEPT !.path = found.path]

\* ReplayController::save_recent.  killOk: libc::kill returned 0; listing:
\* what the output directory holds once the 2 s flush interval is over.
save_recent(w0, duration_secs, killOk, listing) ==
    LET w1 == refresh_child([w0 EXCEPT !.fx = Append(@, Ev("save_recent", 0, 0))])
        pid == current_pid(w1.c)
    IN  IF pid = NoChild THEN Err(w1, ErrNotRunning)
        ELSE IF ~killOk
        THEN Err([w1 EXCEPT !.fx = Append(@, Ev("kill_failed", pid, raw_signal(duration_secs)))],
                 ErrSignal)
        ELSE
        LET fx2 == w1.fx \o <<Ev("kill", pid, raw_signal(duration_secs)), Ev("sleep", 0, 2)>>
            found == find_latest_file(listing)
        IN  IF ~found.ok THEN Err([w1 EXCEPT !.fx = fx2], ErrReadDir)
            ELSE [Ok(World([w1.c EXCEPT !.last_saved = found.path,
                                        !.last_message =
                                            IF found.path # NoPath THEN <<"Replay saved">> ELSE @],
                           w1.p, fx2))
                  EXCEPT !.path = found.path]

\* save_recent up to its await (capture.rs:224-243): the refresh, the pid,
\* the signal.  Ok means the signal is sent and the flush wait begins.
save_signal(w0, duration_secs, killOk) ==
    LET w1 == refresh_child([w0 EXCEPT !.fx = Append(@, Ev("save_recent", 0, 0))])
        pid == current_pid(w1.c)
    IN  IF pid = NoChild THEN Err(w1, ErrNotRunning)
        ELSE IF ~killOk
        THEN Err([w1 EXCEPT !.fx = Append(@, Ev("kill_failed", pid, raw_signal(duration_secs)))],
                 ErrSignal)
        ELSE Ok([w1 EXCEPT !.fx = Append(@, Ev("kill", pid, raw_signal(duration_secs)))])

\* save_recent from the end of its await (capture.rs:243-260): the two
\* seconds are over, the newest file of the output directory is the result
save_collect(w0, listing) ==
    LET fx2 == Append(w0.fx, Ev("sleep", 0, 2))
        found == find_latest_file(listing)
    IN  IF ~found.ok THEN Err([w0 EXCEPT !.fx = fx2], ErrReadDir)
        ELSE [Ok(World([w0.c EXCEPT !.last_saved = found.path,
                                    !.last_message =
                                        IF found.path # NoPath THEN <<"Replay saved">> ELSE @],
                       w0.p, fx2))
              EXCEPT !.path = found.path]

\* the ReplayStatus snapshot of a controller (capture.rs:265-274)
ReplayStatus(c) ==
    [running |-> c.child # NoChild,
     buffer_seconds |-> c.settings.buffer_seconds, bitrate |-> c.settings.bitrate,
     fps |-> c.settings.fps, target |-> c.settings.target,
     audio_tracks |-> c.settings.audio_tracks,
     last_saved |-> c.last_saved, message |-> c.last_message]

\* ReplayController::status: refresh, then the snapshot
status(w0) ==
    LET w1 == refresh_child([w0 EXCEPT !.fx = Append(@, Ev("status", 0, 0))])
    IN  [w |-> w1, snapshot |-> ReplayStatus(w1.c)]

\* ret after an operation: arg is its argument ("" when it has none), det
\* the detector's answer when the operation ran a detection ("none" when it
\* did not), dur a save duration, id the failed-upload id an action named,
\* then the result
Returned(op, arg, det, dur, r) ==
    [op |-> op, arg |-> arg, det |-> det, dur |-> dur, id |-> <<>>,
     ok |-> r.ok, err |-> r.err, path |-> r.path]

Called(op, arg) ==
    [op |-> op, arg |-> arg, det |-> "none", dur |-> NoDuration, id |-> <<>>,
     ok |-> TRUE, err |-> "", path |-> NoPath]

\* the session variables in SpecSanitize and SpecCtl, where no session runs
IdleSession ==
    /\ pc = "idle"
    /\ replay_mode = "Manual"
    /\ game_was_running = FALSE
    /\ persisted = <<>>
    /\ peerOpen = TRUE

\* ------------------------------------------------------ the settings file
\* PersistedSettings::save writes serde_json::to_string_pretty of the value
\* and PersistedSettings::load reads it back with serde_json::from_str.  The
\* text is a sequence of characters; numeric fields range over what a signed
\* 32-bit integer holds.
DigitChars == <<"0", "1", "2", "3", "4", "5", "6", "7", "8", "9">>

\* u32's Display / serde_json's integer output
RECURSIVE Digits(_)
Digits(n) ==
    IF n < 10 THEN <<DigitChars[n + 1]>>
    ELSE Digits(n \div 10) \o <<DigitChars[(n % 10) + 1]>>

\* serde_json's string escaping that leaves the backslash as it is
RECURSIVE escape_no_backslash(_)
escape_no_backslash(str) ==
    IF str = <<>> THEN <<>>
    ELSE LET ch == Head(str)
             out == CASE ch = "\"" -> <<"\\", "\"">>
                      [] ch = "\n" -> <<"\\", "n">>
                      [] ch = "\t" -> <<"\\", "t">>
                      [] ch = "\r" -> <<"\\", "r">>
                      [] OTHER -> <<ch>>
         IN  out \o escape_no_backslash(Tail(str))

\* serde_json's string escaping: the quote, the backslash and the control
\* characters are written as two-character escapes
RECURSIVE escape(_)
escape(str) ==
    IF str = <<>> THEN <<>>
    ELSE LET ch == Head(str)
             out == CASE ch = "\"" -> <<"\\", "\"">>
                      [] ch = "\\" -> <<"\\", "\\">>
                      [] ch = "\n" -> <<"\\", "n">>
                      [] ch = "\t" -> <<"\\", "t">>
                      [] ch = "\r" -> <<"\\", "r">>
                      [] OTHER -> <<ch>>
         IN  out \o escape(Tail(str))

json_string(str) == <<"\"">> \o escape(str) \o <<"\"">>

json_bool(b) == IF b THEN <<"t", "r", "u", "e">> ELSE <<"f", "a", "l", "s", "e">>

\* the variant name an enum without data is written as
mode_name(mode) ==
    IF mode = "Manual" THEN <<"M", "a", "n", "u", "a", "l">>
    ELSE <<"A", "u", "t", "o", "W", "i", "t", "h", "G", "a", "m", "e">>

\* the field names of PersistedSettings as serde writes them
FieldKey ==
    [buffer_seconds |-> <<"b", "u", "f", "f", "e", "r", "_", "s", "e", "c", "o", "n", "d", "s">>,
     bitrate |-> <<"b", "i", "t", "r", "a", "t", "e">>,
     fps |-> <<"f", "p", "s">>,
     target |-> <<"t", "a", "r", "g", "e", "t">>,
     audio_tracks |-> <<"a", "u", "d", "i", "o", "_", "t", "r", "a", "c", "k", "s">>,
     replay_mode |-> <<"r", "e", "p", "l", "a", "y", "_", "m", "o", "d", "e">>,
     replay_enabled |-> <<"r", "e", "p", "l", "a", "y", "_", "e", "n", "a", "b", "l", "e", "d">>]

\* serde_json::to_string_pretty of a PersistedSettings: one "key": value
\* line per field at a two-space indent, fields in declaration order
\* (settings.rs:16-24), array elements one per line at a four-space indent
to_string_pretty(p) ==
    LET RECURSIVE json_elements(_)
        json_elements(v) ==
            IF v = <<>> THEN <<>>
            ELSE <<"\n", " ", " ", " ", " ">> \o json_string(Head(v))
                 \o (IF Tail(v) = <<>> THEN <<>> ELSE <<",">>) \o json_elements(Tail(v))
        json_string_array(v) ==
            IF v = <<>> THEN <<"[", "]">>
            ELSE <<"[">> \o json_elements(v) \o <<"\n", " ", " ", "]">>
        json_field(key, value, last) ==
            <<"\n", " ", " ">> \o json_string(key) \o <<":", " ">> \o value
            \o (IF last THEN <<>> ELSE <<",">>)
    IN  <<"{">>
        \o json_field(FieldKey.buffer_seconds, Digits(p.buffer_seconds), FALSE)
        \o json_field(FieldKey.bitrate, Digits(p.bitrate), FALSE)
        \o json_field(FieldKey.fps, Digits(p.fps), FALSE)
        \o json_field(FieldKey.target, json_string(p.target), FALSE)
        \o json_field(FieldKey.audio_tracks, json_string_array(p.audio_tracks), FALSE)
        \o json_field(FieldKey.replay_mode, json_string(mode_name(p.replay_mode)), FALSE)
        \o json_field(FieldKey.replay_enabled, json_bool(p.replay_enabled), TRUE)
        \o <<"\n", "}">>

\* a parse step: ok, the value read, the index after it
Parsed(val, next) == [ok |-> TRUE, val |-> val, next |-> next]
ParseError == [ok |-> FALSE, val |-> <<>>, next |-> 0]

At(t, i) == IF i <= Len(t) THEN t[i] ELSE ""

RECURSIVE skip_ws(_, _)
skip_ws(t, i) == IF IsWhitespace(At(t, i)) \/ At(t, i) = "\r" THEN skip_ws(t, i + 1) ELSE i

\* a string literal: the characters between the quotes, escapes undone; a
\* raw control character or an unknown escape is an error
parse_string(t, i) ==
    LET RECURSIVE parse_chars(_, _)
        parse_chars(j, acc) ==
            LET ch == At(t, j)
            IN  IF ch = "" THEN ParseError
                ELSE IF ch = "\"" THEN Parsed(acc, j + 1)
                ELSE IF ch = "\\" THEN
                    LET e == At(t, j + 1)
                    IN  CASE e = "\"" -> parse_chars(j + 2, Append(acc, "\""))
                          [] e = "\\" -> parse_chars(j + 2, Append(acc, "\\"))
                          [] e = "n" -> parse_chars(j + 2, Append(acc, "\n"))
                          [] e = "t" -> parse_chars(j + 2, Append(acc, "\t"))
                          [] e = "r" -> parse_chars(j + 2, Append(acc, "\r"))
                          [] OTHER -> ParseError
                ELSE IF ch \in {"\n", "\t", "\r"} THEN ParseError
                ELSE parse_chars(j + 1, Append(acc, ch))
    IN  IF At(t, i) = "\"" THEN parse_chars(i + 1, <<>>) ELSE ParseError

\* an unsigned integer: digits, no leading zero before another digit
parse_u32(t, i) ==
    LET IsDigit(ch) == \E d \in 1..10 : DigitChars[d] = ch
        DigitValue(ch) == (CHOOSE d \in 1..10 : DigitChars[d] = ch) - 1
        RECURSIVE parse_digits(_, _)
        parse_digits(j, acc) ==
            IF IsDigit(At(t, j)) THEN parse_digits(j + 1, acc * 10 + DigitValue(At(t, j)))
            ELSE Parsed(acc, j)
    IN  IF ~IsDigit(At(t, i)) THEN ParseError
        ELSE IF At(t, i) = "0" /\ IsDigit(At(t, i + 1)) THEN ParseError
        ELSE parse_digits(i, 0)

parse_bool(t, i) ==
    LET starts_with(lit) ==
            /\ i + Len(lit) - 1 <= Len(t)
            /\ SubSeq(t, i, i + Len(lit) - 1) = lit
    IN  IF starts_with(json_bool(TRUE)) THEN Parsed(TRUE, i + 4)
        ELSE IF starts_with(json_bool(FALSE)) THEN Parsed(FALSE, i + 5)
        ELSE ParseError

\* an array of strings
parse_string_array(t, i) ==
    LET RECURSIVE parse_more_strings(_, _)
        parse_more_strings(k, acc) ==
            LET j == skip_ws(t, k)
            IN  IF At(t, j) = "]" THEN Parsed(acc, j + 1)
                ELSE IF At(t, j) # "," THEN ParseError
                ELSE LET e == parse_string(t, skip_ws(t, j + 1))
                     IN  IF ~e.ok THEN ParseError
                         ELSE parse_more_strings(e.next, Append(acc, e.val))
    IN  IF At(t, i) # "[" THEN ParseError
        ELSE LET j == skip_ws(t, i + 1)
             IN  IF At(t, j) = "]" THEN Parsed(<<>>, j + 1)
                 ELSE LET e == parse_string(t, j)
                      IN  IF ~e.ok THEN ParseError
                          ELSE parse_more_strings(e.next, <<e.val>>)

\* the value of the field named key, by the field's type
parse_field_value(t, i, key) ==
    LET parse_replay_mode ==
            LET e == parse_string(t, i)
            IN  IF ~e.ok THEN ParseError
                ELSE IF e.val = mode_name("Manual") THEN Parsed("Manual", e.next)
                ELSE IF e.val = mode_name("AutoWithGame") THEN Parsed("AutoWithGame", e.next)
                ELSE ParseError
    IN  CASE key \in {"buffer_seconds", "bitrate", "fps"} -> parse_u32(t, i)
          [] key = "target" -> parse_string(t, i)
          [] key = "audio_tracks" -> parse_string_array(t, i)
          [] key = "replay_mode" -> parse_replay_mode
          [] key = "replay_enabled" -> parse_bool(t, i)
          [] OTHER -> ParseError

\* serde_json::from_str::<PersistedSettings>: the whole text is one object
\* with every field of the struct exactly once, in any order; seen maps the
\* fields read so far to their values
from_str(t) ==
    LET Field(name) == {k \in DOMAIN FieldKey : FieldKey[k] = name}
        RECURSIVE parse_members(_, _)
        parse_members(i, seen) ==
            LET k == parse_string(t, skip_ws(t, i))
            IN  IF ~k.ok THEN ParseError
                ELSE IF Field(k.val) = {} \/ Field(k.val) \subseteq DOMAIN seen THEN ParseError
                ELSE
                LET key == CHOOSE f \in Field(k.val) : TRUE
                    c == skip_ws(t, k.next)
                IN  IF At(t, c) # ":" THEN ParseError
                    ELSE
                    LET v == parse_field_value(t, skip_ws(t, c + 1), key)
                    IN  IF ~v.ok THEN ParseError
                        ELSE
                        LET seen2 == [x \in DOMAIN seen \cup {key} |->
                                         IF x = key THEN v.val ELSE seen[x]]
                            e == skip_ws(t, v.next)
                        IN  IF At(t, e) = "," THEN parse_members(e + 1, seen2)
                            ELSE IF At(t, e) = "}" /\ DOMAIN seen2 = DOMAIN FieldKey
                            THEN Parsed(seen2, e + 1)
                            ELSE ParseError
        i0 == skip_ws(t, 1)
    IN  IF At(t, i0) # "{" THEN ParseError
        ELSE
        LET m == parse_members(i0 + 1, [x \in {} |-> 0])
        IN  IF ~m.ok THEN ParseError
            ELSE IF skip_ws(t, m.next) # Len(t) + 1 THEN ParseError
            ELSE m

\* PersistedSettings::save on the settings file (<<>> when absent): the file
\* afterwards; nothing is written when the directory or the file cannot be
\* (settings.rs:42-57)
save_file(p, file, writeOk) == IF writeOk THEN <<to_string_pretty(p)>> ELSE file

\* PersistedSettings::load (settings.rs:27-40): Ok(None) without a file,
\* Ok(Some(value)) or the parse error with one; val is <<>> for None
load(file) ==
    IF file = <<>> THEN [ok |-> TRUE, val |-> <<>>]
    ELSE LET r == from_str(file[1])
         IN  IF r.ok THEN [ok |-> TRUE, val |-> <<r.val>>]
             ELSE [ok |-> FALSE, val |-> <<>>]

\* the PersistedSettings values saved in SpecSettingsFile: targets over a
\* quote, a backslash, a newline and a letter, tracks with and without
\* characters that need escaping, small and large numbers
FileInputs ==
    LET FileChars == {"m", "\"", "\\", "\n"}
        FileTexts == SeqsUpTo(FileChars, MaxNameLen + 1)
        FileTracks == SeqsUpTo({<<"m">>, <<"\\", "\"">>}, MaxTracks)
        FileNumbers == {<<0, 0, 0>>, <<60, 60000, 7>>, <<2147483647, 10, 1234567890>>}
    IN  {[buffer_seconds |-> n[1], bitrate |-> n[2], fps |-> n[3], target |-> tg,
          audio_tracks |-> tr, replay_mode |-> m, replay_enabled |-> en] :
            n \in FileNumbers, tg \in FileTexts, tr \in FileTracks,
            m \in {"Manual", "AutoWithGame"}, en \in BOOLEAN}

\* ------------------------------------------------------- failed uploads
\* A path under the processed directory is its directory there (<<>> for
\* the processed directory itself) and its file name, both character
\* sequences.  The processed directory is writable: create_dir_all, rename
\* and remove_file succeed on it.
Path(dir, name) == [dir |-> dir, name |-> name]

\* how many characters of the title enter a FailedUpload id
IdTitleChars == 20
\* unique_path's MAX_ATTEMPTS
MAX_ATTEMPTS == 9999

MP4 == <<"m", "p", "4">>

\* FailedUpload::new: the id is "{timestamp}-{first 20 characters of title}"
new_failed_upload(title, game, processed_path, full_path, timestamp) ==
    [id |-> Digits(timestamp) \o <<"-">>
              \o SubSeq(title, 1, IF Len(title) < IdTitleChars THEN Len(title)
                                  ELSE IdTitleChars),
     title |-> title, game |-> game, processed_path |-> processed_path,
     full_path |-> full_path, timestamp |-> timestamp]

\* "{title}" or "{title} [{game}]" (FailedUpload::display_name; main.rs
\* builds title_with_game the same way)
display_name(title, game) ==
    IF game = <<>> THEN title ELSE title \o <<" ", "[">> \o game \o <<"]">>

\* FailedUploadsList::add
add(uploads, upload) == Append(uploads, upload)

\* the position FailedUploadsList::remove and ::get find: the first record
\* with the id, 0 when there is none
position(uploads, id) ==
    IF \E i \in 1..Len(uploads) : uploads[i].id = id
    THEN CHOOSE i \in 1..Len(uploads) :
             /\ uploads[i].id = id
             /\ \A j \in 1..(i - 1) : uploads[j].id # id
    ELSE 0

\* FailedUploadsList::remove that takes out every record with the id
remove_all(uploads, id) ==
    LET RECURSIVE keep(_)
        keep(v) == IF v = <<>> THEN <<>>
                   ELSE IF Head(v).id = id THEN keep(Tail(v))
                   ELSE <<Head(v)>> \o keep(Tail(v))
        pos == position(uploads, id)
    IN  [uploads |-> keep(uploads),
         removed |-> IF pos = 0 THEN <<>> ELSE <<uploads[pos]>>]

\* FailedUploadsList::remove: the list afterwards and the record taken out,
\* <<>> when no record has the id
remove(uploads, id) ==
    LET pos == position(uploads, id)
    IN  IF pos = 0 THEN [uploads |-> uploads, removed |-> <<>>]
        ELSE [uploads |-> SubSeq(uploads, 1, pos - 1)
                          \o SubSeq(uploads, pos + 1, Len(uploads)),
              removed |-> <<uploads[pos]>>]

\* FailedUploadsList::get, <<>> for None
get(uploads, id) ==
    IF position(uploads, id) = 0 THEN <<>> ELSE <<uploads[position(uploads, id)]>>

\* unique_path for the file "{stem}.{ext}" of directory dir: the path
\* itself when nothing is there, else the first free "{stem}-{idx}.{ext}"
\* (the search gives up past MAX_ATTEMPTS, which no directory here reaches)
unique_path(fs, dir, stem, ext) ==
    LET RECURSIVE first_free(_)
        first_free(idx) ==
            LET candidate == Path(dir, stem \o <<"-">> \o Digits(idx) \o <<".">> \o ext)
            IN  IF candidate \notin fs \/ idx = MAX_ATTEMPTS THEN candidate
                ELSE first_free(idx + 1)
        base == Path(dir, stem \o <<".">> \o ext)
    IN  IF base \notin fs THEN base ELSE first_free(1)

\* the two renames handle_move_action and handle_upload_action share: the
\* finished file becomes "{processed_stem}.mp4" and the raw capture
\* "{safe_title}_raw.mp4" in dest_dir, each under a unique name, each only
\* when it exists
move_pair(fs, out_full, out_processed, dest_dir, processed_stem, safe_title) ==
    LET fs1 == IF out_processed \in fs
               THEN (fs \ {out_processed})
                    \cup {unique_path(fs, dest_dir, processed_stem, MP4)}
               ELSE fs
        fs2 == IF out_full \in fs1
               THEN (fs1 \ {out_full})
                    \cup {unique_path(fs1, dest_dir, safe_title \o <<"_", "r", "a", "w">>, MP4)}
               ELSE fs1
    IN  fs2

\* handle_move_action: the files afterwards; dest_dir is title_with_game
handle_move_action(fs, out_full, out_processed, title_with_game, safe_title) ==
    move_pair(fs, out_full, out_processed, title_with_game, title_with_game, safe_title)

\* the directory handle_upload_action moves into:
\* "{title_with_game} [{video_id}]"
upload_dest_dir(title_with_game, video_id) ==
    title_with_game \o <<" ", "[">> \o video_id \o <<"]">>

\* handle_upload_action: the files afterwards
handle_upload_action(fs, out_full, out_processed, title_with_game, safe_title, video_id) ==
    move_pair(fs, out_full, out_processed, upload_dest_dir(title_with_game, video_id),
              upload_dest_dir(title_with_game, video_id), safe_title)

\* the settings-file variables where no save or load is under study
IdleFile ==
    /\ psIn = <<>>
    /\ settings_file = <<>>
    /\ psOut = <<>>

\* the failed-uploads variables of a session that has no failed upload
IdleUploads ==
    /\ failed_uploads_list = <<>>
    /\ files = {}
    /\ now = 0

\* the transport variables where the inbound stream is not under study
IdleTransport ==
    /\ inbound = <<>>
    /\ worker = <<>>
    /\ in_flight = <<>>

\* the visibility variables where the overlay's visibility is not under study
IdleVisible ==
    /\ visible = FALSE
    /\ last_visibility = <<>>
    /\ hotkey_task = <<>>
    /\ session_task = <<>>

\* ---------------------------------------------------------- SpecSanitize
InitSanitize ==
    /\ sanIn \in SanitizeInputs
    /\ sanOut = <<>>
    /\ controller = new(PlainSettings)
    /\ procs = [i \in Pids |-> FreeSlot]
    /\ effects = <<>>
    /\ ret = Called("new", "")
    /\ IdleSession
    /\ IdleFile
    /\ IdleUploads
    /\ IdleVisible
    /\ IdleTransport

Sanitize ==
    /\ sanOut = <<>>
    /\ sanOut' = <<sanitize(sanIn)>>
    /\ UNCHANGED <<sanIn, visibleVars, ctlVars, loopVars, fileVars, uploadVars, transportVars>>

NextSanitize == Sanitize

SpecSanitize == InitSanitize /\ [][NextSanitize]_vars

\* ------------------------------------------------------ SpecSettingsFile
\* One PersistedSettings value, saved and loaded in any order, starting
\* without a settings file.
InitSettingsFile ==
    /\ sanIn = ZeroSettings
    /\ sanOut = <<>>
    /\ controller = new(PlainSettings)
    /\ procs = [i \in Pids |-> FreeSlot]
    /\ effects = <<>>
    /\ ret = Called("new", "")
    /\ IdleSession
    /\ psIn \in FileInputs
    /\ settings_file = <<>>
    /\ psOut = <<>>
    /\ IdleUploads
    /\ IdleVisible
    /\ IdleTransport

\* PersistedSettings::save of the value
SaveSettings ==
    \E writeOk \in BOOLEAN :
        /\ settings_file' = save_file(psIn, settings_file, writeOk)
        /\ psOut' = <<>>
        /\ ret' = [Called("save", "") EXCEPT !.ok = writeOk]
        /\ UNCHANGED <<sanVars, visibleVars, controller, procs, effects, loopVars, psIn,
                       uploadVars, transportVars>>

\* PersistedSettings::load
LoadSettings ==
    /\ psOut' = <<load(settings_file)>>
    /\ ret' = Called("load", "")
    /\ UNCHANGED <<sanVars, visibleVars, controller, procs, effects, loopVars, psIn,
                   settings_file, uploadVars, transportVars>>

NextSettingsFile ==
    \/ SaveSettings
    \/ LoadSettings

SpecSettingsFile == InitSettingsFile /\ [][NextSettingsFile]_vars

\* ------------------------------------------------- the environment's answers
\* Each operation is handed the answers the outside world gives it; an
\* answer is drawn only where the operation asks for it.
\* <<mkdirOk, spawnOk>> for an ensure_running that gets past its early return
NoAnswer == {<<TRUE, TRUE>>}
StartAnswers(c, p) ==
    IF c.child # NoChild /\ p[c.child].st = "alive" THEN NoAnswer
    ELSE {<<TRUE, TRUE>>, <<FALSE, TRUE>>, <<TRUE, FALSE>>}
\* <<killOk, waitOk>> for a stop that holds a child
StopAnswers(c) == IF c.child = NoChild THEN NoAnswer ELSE BOOLEAN \X BOOLEAN
\* <<killOk, listing>> for a save_recent that finds a live child
SaveAnswers(c, p) ==
    IF c.child # NoChild /\ p[c.child].st = "alive"
    THEN {<<TRUE, l>> : l \in Listings} \cup {<<FALSE, [ok |-> TRUE, entries |-> <<>>]>>}
    ELSE {<<TRUE, [ok |-> TRUE, entries |-> <<>>]>>}
\* <<det, mkdirOk, spawnOk, killOk, waitOk>> for a detection with flag gwr
DetectAnswers(c, p, gwr) ==
    {<<"err", TRUE, TRUE, TRUE, TRUE>>}
    \cup (IF gwr THEN {<<"game", TRUE, TRUE, TRUE, TRUE>>}
          ELSE {<<"game", a[1], a[2], TRUE, TRUE>> : a \in StartAnswers(c, p)})
    \cup (IF gwr THEN {<<"", TRUE, TRUE, a[1], a[2]>> : a \in StopAnswers(c)}
          ELSE {<<"", TRUE, TRUE, TRUE, TRUE>>})
\* whether a command to the peer is accepted: always while it is there
SendAnswers(open) == IF open THEN {TRUE} ELSE BOOLEAN
\* whether the settings file can be written.  The session is modelled with
\* a writable configuration directory; a failed write is logged by every
\* caller and changes nothing but the log.
WriteAnswers == {TRUE}

\* --------------------------------------------------------------- SpecCtl
\* save durations handed to save_recent: absent, the six of the table, and
\* values outside it
DurationInputs == {NoDuration, 0, 5, 10, 30, 60, 300, 600, 1800, 3600}


Here == World(controller, procs, <<>>)

Commit(w) ==
    /\ controller' = w.c
    /\ procs' = w.p
    /\ effects' = w.fx

InitCtl ==
    /\ sanIn = ZeroSettings
    /\ sanOut = <<>>
    /\ controller \in {new(s) : s \in SettingsInputs}
    /\ procs = [i \in Pids |-> FreeSlot]
    /\ effects = <<>>
    /\ ret = Called("new", "")
    /\ IdleSession
    /\ IdleFile
    /\ IdleUploads
    /\ IdleVisible
    /\ IdleTransport

CtlEnsureRunning ==
    \E a \in StartAnswers(controller, procs) :
        LET r == ensure_running(Here, a[1], a[2])
        IN  /\ Commit(r.w)
            /\ ret' = Returned("ensure_running", "", "none", NoDuration, r)
            /\ UNCHANGED <<sanVars, visibleVars, fileVars, uploadVars, transportVars, loopVars>>

CtlStop ==
    \E a \in StopAnswers(controller) :
        LET r == stop(Here, a[1], a[2])
        IN  /\ Commit(r.w)
            /\ ret' = Returned("stop", "", "none", NoDuration, r)
            /\ UNCHANGED <<sanVars, visibleVars, fileVars, uploadVars, transportVars, loopVars>>

CtlApplySettings ==
    \E s \in SettingsInputs, a \in StopAnswers(controller),
       b \in StartAnswers(new(controller.settings), procs) :
        LET r == apply_settings(Here, s, a[1], a[2],
                                controller.child = NoChild \/ b[1],
                                controller.child = NoChild \/ b[2])
        IN  /\ Commit(r.w)
            /\ ret' = Returned("apply_settings", "", "none", NoDuration, r)
            /\ UNCHANGED <<sanVars, visibleVars, fileVars, uploadVars, transportVars, loopVars>>

CtlSaveRecent ==
    \E d \in DurationInputs, a \in SaveAnswers(controller, procs) :
        LET r == save_recent(Here, d, a[1], a[2])
        IN  /\ Commit(r.w)
            /\ ret' = Returned("save_recent", "", "none", d, r)
            /\ UNCHANGED <<sanVars, visibleVars, fileVars, uploadVars, transportVars, loopVars>>

CtlStatus ==
    LET r == status(Here)
    IN  /\ Commit(r.w)
        /\ ret' = Called("status", "")
        /\ UNCHANGED <<sanVars, visibleVars, fileVars, uploadVars, transportVars, loopVars>>

\* the recorder exits on its own (crash, portal denied, killed by the user)
RecorderExits ==
    \E pid \in Pids :
        /\ pc \in {"idle", "enter", "loop", "flush", "clip"}
        /\ procs[pid].st = "alive"
        /\ procs' = [procs EXCEPT ![pid].st = "exited"]
        /\ effects' = <<>>
        /\ ret' = Called("recorder_exits", "")
        /\ UNCHANGED <<controller, sanVars, visibleVars, loopVars, fileVars, uploadVars, transportVars>>

NextCtl ==
    \/ CtlEnsureRunning
    \/ CtlStop
    \/ CtlApplySettings
    \/ CtlSaveRecent
    \/ CtlStatus
    \/ RecorderExits

SpecCtl == InitCtl /\ [][NextCtl]_vars

\* ------------------------------------------------------------------ Spec
\* ReplayController::set_message
set_message(w, m) == [w EXCEPT !.c.last_message = m]

\* ReplayController::clear_last_saved
clear_last_saved(w) == [w EXCEPT !.c.last_saved = NoPath]

Fx(w, e) == [w EXCEPT !.fx = Append(@, Ev(e, 0, 0))]

\* failed_uploads_to_entries
failed_uploads_to_entries(uploads) ==
    [i \in 1..Len(uploads) |->
        [id |-> uploads[i].id,
         display_name |-> display_name(uploads[i].title, uploads[i].game)]]

\* build_capture_status; cfg.hotkey is fixed for the session
build_capture_status(snapshot, uploads, mode) ==
    [running |-> snapshot.running, buffer_seconds |-> snapshot.buffer_seconds,
     bitrate |-> snapshot.bitrate, fps |-> snapshot.fps, target |-> snapshot.target,
     audio_tracks |-> snapshot.audio_tracks, last_saved |-> snapshot.last_saved,
     hotkey |-> "cfg.hotkey", message |-> snapshot.message, is_saving |-> FALSE,
     failed_uploads |-> failed_uploads_to_entries(uploads),
     replay_mode |-> IF mode = "Manual" THEN "manual" ELSE "auto"]

\* a status command to the peer carrying payload (session.update_status,
\* send_capture_status or show_capture)
send_status(w, payload) == [w EXCEPT !.fx = Append(@, Ev("push", 0, payload))]

\* a status push that sends nothing
push_status_silent(w, uploads, mode) == status(w).w

\* controller.status()?, build_capture_status on the snapshot, and the
\* status command
push_status(w, uploads, mode) ==
    send_status(status(w).w, build_capture_status(status(w).snapshot, uploads, mode))

\* PersistedSettings::from_replay_settings
from_replay_settings(settings, mode, replay_enabled) ==
    [buffer_seconds |-> settings.buffer_seconds, bitrate |-> settings.bitrate,
     fps |-> settings.fps, target |-> settings.target,
     audio_tracks |-> settings.audio_tracks,
     replay_mode |-> mode, replay_enabled |-> replay_enabled]

\* PersistedSettings::apply_to_replay_settings
apply_to_replay_settings(p, settings) ==
    [settings EXCEPT !.buffer_seconds = p.buffer_seconds, !.bitrate = p.bitrate,
                     !.fps = p.fps, !.target = p.target,
                     !.audio_tracks = p.audio_tracks]

\* PersistedSettings::save: the file after the call; a failed write is
\* logged by the caller and leaves the file as it was
save(p, file, writeOk) == IF writeOk THEN <<p>> ELSE file

\* the answers of detect_steam_game: a game's name, no game, a failure
Detections == {"game", "", "err"}

\* maybe_handle_game_detection: the world and the flag afterwards, and the
\* returned bool
maybe_handle_game_detection(w0, gwr, det, mkdirOk, spawnOk, killOk, waitOk) ==
    LET w1 == Fx(w0, "detect")
    IN  IF det = "err" THEN [w |-> w1, gwr |-> gwr, changed |-> FALSE]
        ELSE
        LET game_running == det # ""
        IN  IF game_running /\ ~gwr THEN
                LET r == ensure_running(w1, mkdirOk, spawnOk)
                IN  [w |-> set_message(r.w, IF r.ok THEN <<"Replay started (", det, ")">>
                                            ELSE <<"Failed to start replay: ", r.err>>),
                     gwr |-> IF r.ok THEN TRUE ELSE gwr, changed |-> TRUE]
            ELSE IF ~game_running /\ gwr THEN
                LET r == stop(w1, killOk, waitOk)
                IN  [w |-> set_message(r.w, <<"Replay stopped (game exited)">>),
                     gwr |-> FALSE, changed |-> TRUE]
            ELSE [w |-> w1, gwr |-> gwr, changed |-> FALSE]

\* settings files a session may find at startup
PersistedInputs ==
    { from_replay_settings(PlainSettings, "Manual", TRUE),
      from_replay_settings(PlainSettings, "Manual", FALSE),
      from_replay_settings(ZeroSettings, "AutoWithGame", TRUE) }

Init ==
    /\ sanIn = ZeroSettings
    /\ sanOut = <<>>
    /\ controller = new(PlainSettings)
    /\ procs = [i \in Pids |-> FreeSlot]
    /\ effects = <<>>
    /\ ret = Called("new", "")
    /\ pc = "startup"
    /\ replay_mode = "Manual"
    /\ game_was_running = FALSE
    /\ persisted \in {<<>>} \cup {<<p>> : p \in PersistedInputs}
    /\ peerOpen = TRUE
    /\ IdleFile
    /\ IdleUploads
    /\ IdleVisible
    /\ IdleTransport

\* a start that follows the persisted enabled flag whatever the mode
starts_before_loop_any_mode(restored, mode, enabled, auto_start) ==
    IF restored THEN enabled ELSE auto_start

\* Whether run_capture_mode starts the recorder before the loop
\* (main.rs:76-101): should_start is the CLI flag, replaced by the persisted
\* enabled flag when settings were restored with mode Manual, and it counts
\* in Manual mode only.
starts_before_loop(restored, mode, enabled, auto_start) ==
    mode = "Manual" /\ (IF restored /\ mode = "Manual" THEN enabled ELSE auto_start)

\* run_capture_mode up to the outer loop (main.rs:57-118): restore the
\* persisted settings and mode, build the controller, start the recorder in
\* Manual mode when asked to.  loadOk is false when the file cannot be read
\* or parsed, which the code treats like its absence.
Startup ==
    /\ pc = "startup"
    /\ \E auto_start \in BOOLEAN, loadOk \in BOOLEAN, a \in StartAnswers(controller, procs) :
        LET mkdirOk == a[1]
            spawnOk == a[2]
            restored == persisted # <<>> /\ loadOk
            settings == IF restored
                        THEN apply_to_replay_settings(persisted[1], controller.settings)
                        ELSE controller.settings
            mode == IF restored THEN persisted[1].replay_mode ELSE "Manual"
            should_start == starts_before_loop(restored, mode,
                                               restored /\ persisted[1].replay_enabled,
                                               auto_start)
            w0 == World(new(settings), procs, <<>>)
            r == ensure_running(w0, mkdirOk, spawnOk)
            w1 == IF should_start
                  THEN (IF r.ok THEN r.w
                        ELSE set_message(r.w, <<"Failed to start replay: ", r.err>>))
                  ELSE w0
        IN  /\ Commit(w1)
            /\ replay_mode' = mode
            /\ ret' = [Called("startup", IF should_start THEN "start" ELSE "")
                       EXCEPT !.det = IF restored THEN "restored" ELSE "fresh",
                              !.id = IF auto_start THEN <<"auto_start">> ELSE <<>>]
            /\ pc' = "enter"
            /\ UNCHANGED <<sanVars, visibleVars, fileVars, uploadVars, transportVars, game_was_running, persisted, peerOpen>>

\* One pass of the outer loop up to the select (main.rs:121-129, 201-221):
\* show the capture panel, reset the presence flag, and in AutoWithGame run
\* a first detection.  A command the departed peer no longer takes fails the
\* session.
EnterLoop ==
    /\ pc = "enter"
    /\ \E sendOk \in SendAnswers(peerOpen),
          a \in IF replay_mode = "AutoWithGame"
                THEN DetectAnswers(status(Here).w.c, status(Here).w.p, FALSE)
                ELSE {<<"", TRUE, TRUE, TRUE, TRUE>>} :
        LET w1 == push_status(Here, failed_uploads_list, replay_mode)
            det == a[1]
            d == maybe_handle_game_detection(w1, FALSE, det, a[2], a[3], a[4], a[5])
            auto == replay_mode = "AutoWithGame"
            w2 == IF auto THEN (IF d.changed THEN push_status(d.w, failed_uploads_list, replay_mode) ELSE d.w) ELSE w1
        IN  /\ IF sendOk
               THEN /\ Commit(w2)
                    /\ game_was_running' = (IF auto THEN d.gwr ELSE FALSE)
                    /\ ret' = [Called("enter", "") EXCEPT !.det = IF auto THEN det ELSE "none"]
                    /\ pc' = "loop"
               ELSE /\ Commit(status(Here).w)
                    /\ ret' = [Called("enter", "") EXCEPT !.ok = FALSE]
                    /\ pc' = "failed"
                    /\ UNCHANGED game_was_running
            /\ UNCHANGED <<sanVars, visibleVars, fileVars, uploadVars, transportVars, replay_mode, persisted, peerOpen>>

\* a Toggle that acts in either mode
toggle_acts_always(mode) == TRUE

\* whether a Toggle acts on the recorder: in Manual mode only (main.rs:237-238)
toggle_acts(mode) == mode = "Manual"

\* CaptureActionPayload::Toggle (main.rs:236-268) and the status push that
\* follows every action (main.rs:493-503)
Toggle ==
    /\ pc = "loop" /\ peerOpen
    /\ \E enable \in BOOLEAN :
       \E a \in IF replay_mode # "Manual" THEN NoAnswer
                ELSE IF enable THEN StartAnswers(controller, procs)
                ELSE StopAnswers(controller),
          writeOk \in WriteAnswers :
        LET manual == toggle_acts(replay_mode)
            r == IF enable THEN ensure_running(Here, a[1], a[2])
                 ELSE stop(Here, a[1], a[2])
            msg == IF ~enable THEN <<"Replay recorder stopped">>
                   ELSE IF r.ok THEN <<"Replay recorder started">>
                   ELSE <<"Failed to enable replay: ", r.err>>
            w1 == IF manual
                  THEN Fx(set_message(r.w, msg), IF writeOk THEN "persist" ELSE "persist_failed")
                  ELSE set_message(Here, <<"Toggle disabled in auto mode">>)
        IN  /\ Commit(push_status(w1, failed_uploads_list, replay_mode))
            /\ persisted' = IF manual
                            THEN save(from_replay_settings(w1.c.settings, replay_mode, enable),
                                      persisted, writeOk)
                            ELSE persisted
            /\ ret' = [Called("toggle", IF enable THEN "on" ELSE "off")
                       EXCEPT !.ok = manual => r.ok, !.err = IF manual THEN r.err ELSE ""]
            /\ UNCHANGED <<sanVars, visibleVars, fileVars, uploadVars, transportVars, pc, replay_mode, game_was_running, peerOpen>>

\* durations a Save action may carry (duration_secs: u32, 0 for full buffer)
SaveDurations == {0, 10, 30, 60, 300, 600, 1800, 45}

\* The select of run_capture_loop is polled (main.rs:224-226): the while
\* condition holds, and the body of the arm taken before has run to its
\* end, its awaits included.  p is the position of the loop, handlers the
\* handlers begun and not finished.
select_polled_at_await(p, handlers) == p \in {"loop", "flush"}

select_polled(p, handlers) == p = "loop" /\ handlers = <<>>

\* a save that ends the loop whenever save_recent did not fail
is_saved_on_ok(r) == r.ok

\* whether the result r of save_recent is Ok(Some(path)), the arm that sets
\* the outcome Saved(path) (main.rs:298-305)
is_saved(r) == r.ok /\ r.path # NoPath

\* What the Save handler does with the result r of save_recent
\* (main.rs:290-319) and the push after a handled action (main.rs:493-503):
\* the status is built before the message is set, and sent after it.
report_save(r, uploads, mode) ==
    LET w2 == status(r.w).w
        built == build_capture_status(status(r.w).snapshot, uploads, mode)
    IN  IF is_saved(r)
        THEN send_status(set_message(w2, <<"Processing clip">>), built)
        ELSE IF r.ok
        THEN push_status(send_status(set_message(w2, <<"No new replay file generated">>),
                                     built),
                         uploads, mode)
        ELSE push_status(send_status(set_message(w2, <<"Save failed: ", r.err>>), built),
                         uploads, mode)

\* CaptureActionPayload::Save (main.rs:269-320): Saved(path) ends the loop,
\* anything else is reported and followed by the usual status push
Save ==
    /\ pc = "loop" /\ peerOpen
    /\ \E duration_secs \in SaveDurations, a \in SaveAnswers(controller, procs) :
        LET w0 == status(set_message(Here, <<"Saving replay clip...">>))
            w1 == send_status(w0.w, [build_capture_status(w0.snapshot, failed_uploads_list,
                                                          replay_mode)
                                     EXCEPT !.is_saving = TRUE])
            killOk == a[1]
            listing == a[2]
            duration == IF duration_secs = 0 THEN NoDuration ELSE duration_secs
            r == save_recent(w1, duration, killOk, listing)
            saved == is_saved(r)
        IN  /\ Commit(report_save(r, failed_uploads_list, replay_mode))
            /\ ret' = Returned("save", "", "none", duration, r)
            /\ pc' = IF saved THEN "clip" ELSE "loop"
            /\ UNCHANGED <<sanVars, visibleVars, fileVars, uploadVars, transportVars, replay_mode, game_was_running, persisted, peerOpen>>

\* CaptureSettingsPayload values an UpdateSettings action may carry
SettingsRequests ==
    { MkSettings(<<" ">>, 0, 0, 0, <<>>),
      MkSettings(<<"m">>, 2, 2, 2, <<<<" ">>>>) }

\* the merge of an UpdateSettings request into the current settings
\* (main.rs:322-331)
merge_settings(current, req) ==
    [current EXCEPT
        !.target = IF Trim(req.target) # <<>> THEN req.target ELSE @,
        !.buffer_seconds = req.buffer_seconds,
        !.bitrate = req.bitrate,
        !.fps = req.fps,
        !.audio_tracks = IF req.audio_tracks # <<>> THEN req.audio_tracks ELSE @]

\* CaptureActionPayload::UpdateSettings (main.rs:321-348)
UpdateSettings ==
    /\ pc = "loop" /\ peerOpen
    /\ \E req \in SettingsRequests, a \in StopAnswers(controller),
          b \in StartAnswers(new(controller.settings), procs), writeOk \in WriteAnswers :
        LET new_settings == merge_settings(controller.settings, req)
            r == apply_settings(Here, new_settings, a[1], a[2],
                                controller.child = NoChild \/ b[1],
                                controller.child = NoChild \/ b[2])
            w1 == IF r.ok
                  THEN status(set_message(r.w, <<"Settings updated">>))
                  ELSE [w |-> set_message(r.w, <<"Apply failed: ", r.err>>),
                        snapshot |-> ReplayStatus(r.w.c)]
            w2 == IF r.ok THEN Fx(w1.w, IF writeOk THEN "persist" ELSE "persist_failed")
                  ELSE w1.w
        IN  /\ Commit(push_status(w2, failed_uploads_list, replay_mode))
            /\ persisted' = IF r.ok
                            THEN save(from_replay_settings(new_settings, replay_mode,
                                                           w1.snapshot.running),
                                      persisted, writeOk)
                            ELSE persisted
            /\ ret' = Returned("update_settings", "", "none", NoDuration, r)
            /\ UNCHANGED <<sanVars, visibleVars, fileVars, uploadVars, transportVars, pc, replay_mode, game_was_running, peerOpen>>

\* the mode strings an UpdateMode action may carry
ModeStrings == {"auto", "manual", "other"}

\* main.rs:350-353
parse_mode(mode_str) == IF mode_str = "auto" THEN "AutoWithGame" ELSE "Manual"

\* the UpdateMode handler acting on every request
mode_changed_always(new_mode, old_mode) == TRUE

\* main.rs:362
mode_changed(new_mode, old_mode) == new_mode # old_mode

\* the UpdateMode handler's switch to Manual without the stop
switch_to_manual_no_stop(w0, killOk, waitOk) ==
    set_message(w0, <<"Manual mode enabled">>)

\* the UpdateMode handler's switch to Manual (main.rs:364-372); stop never
\* returns an error
switch_to_manual(w0, killOk, waitOk) ==
    set_message(stop(w0, killOk, waitOk).w, <<"Manual mode enabled">>)

\* CaptureActionPayload::UpdateMode (main.rs:349-392)
UpdateMode ==
    /\ pc = "loop" /\ peerOpen
    /\ \E mode_str \in ModeStrings :
       \E a \in IF ~mode_changed(parse_mode(mode_str), replay_mode)
                THEN {<<"", TRUE, TRUE, TRUE, TRUE>>}
                ELSE IF parse_mode(mode_str) = "Manual"
                THEN {<<"", TRUE, TRUE, k[1], k[2]>> : k \in StopAnswers(controller)}
                ELSE DetectAnswers(controller, procs, FALSE),
          writeOk \in WriteAnswers :
        LET new_mode == parse_mode(mode_str)
            det == a[1]
            mkdirOk == a[2]
            spawnOk == a[3]
            killOk == a[4]
            waitOk == a[5]
            old_mode == replay_mode
            changed == mode_changed(new_mode, old_mode)
            d == maybe_handle_game_detection(set_message(Here, <<"Auto mode enabled">>),
                                             FALSE, det, mkdirOk, spawnOk, killOk, waitOk)
            w1 == IF ~changed THEN Here
                  ELSE IF new_mode = "Manual" THEN switch_to_manual(Here, killOk, waitOk)
                  ELSE d.w
            w2 == IF changed THEN status(w1) ELSE [w |-> w1, snapshot |-> ReplayStatus(w1.c)]
            w3 == IF changed THEN Fx(w2.w, IF writeOk THEN "persist" ELSE "persist_failed")
                  ELSE w2.w
        IN  /\ Commit(push_status(w3, failed_uploads_list, new_mode))
            /\ replay_mode' = new_mode
            /\ game_was_running' = (IF ~changed THEN game_was_running
                                    ELSE IF new_mode = "Manual" THEN FALSE ELSE d.gwr)
            /\ persisted' = IF changed
                            THEN save(from_replay_settings(w2.w.c.settings, new_mode,
                                                           w2.snapshot.running),
                                      persisted, writeOk)
                            ELSE persisted
            /\ ret' = [Called("update_mode", mode_str)
                       EXCEPT !.det = IF changed /\ new_mode = "AutoWithGame" THEN det
                                      ELSE "none"]
            /\ UNCHANGED <<sanVars, visibleVars, fileVars, uploadVars, transportVars, pc, peerOpen>>

\* a tick that runs the detection in either mode
tick_detects_always(mode) == TRUE

\* whether a tick runs the detection: in AutoWithGame mode only
\* (main.rs:512-513)
tick_detects(mode) == mode = "AutoWithGame"

\* The detection tick (main.rs:511-527).  With the peer gone the status
\* command may fail, which fails the session.
Tick ==
    /\ select_polled(pc, in_flight)
    /\ \E sendOk \in SendAnswers(peerOpen),
          a \in IF replay_mode = "AutoWithGame"
                THEN DetectAnswers(controller, procs, game_was_running)
                ELSE {<<"", TRUE, TRUE, TRUE, TRUE>>} :
        LET auto == tick_detects(replay_mode)
            det == a[1]
            d == maybe_handle_game_detection(Here, game_was_running, det,
                                             a[2], a[3], a[4], a[5])
            pushes == auto /\ d.changed
            w1 == IF ~auto THEN Here
                  ELSE IF ~d.changed THEN d.w
                  ELSE IF sendOk THEN push_status(d.w, failed_uploads_list, replay_mode)
                  ELSE status(d.w).w
        IN  /\ Commit(w1)
            /\ game_was_running' = (IF auto THEN d.gwr ELSE FALSE)
            /\ ret' = [Called("tick", "")
                       EXCEPT !.det = IF auto THEN det ELSE "none",
                              !.ok = ~pushes \/ sendOk]
            /\ pc' = IF pushes /\ ~sendOk THEN "failed" ELSE "loop"
            /\ UNCHANGED <<sanVars, visibleVars, fileVars, uploadVars, transportVars, replay_mode, persisted, peerOpen>>

\* the peer closes its stream (the overlay exits)
PeerCloses ==
    /\ pc \in {"enter", "loop", "flush", "clip"}
    /\ peerOpen
    /\ peerOpen' = FALSE
    /\ effects' = <<>>
    /\ ret' = Called("peer_closes", "")
    /\ UNCHANGED <<sanVars, visibleVars, fileVars, uploadVars, transportVars, controller, procs, pc, replay_mode, game_was_running,
                   persisted>>

\* wait_for_action returned None: the loop ends with Exit (main.rs:231-233)
LoopExit ==
    /\ pc = "loop" /\ ~peerOpen
    /\ pc' = "exit"
    /\ effects' = <<>>
    /\ ret' = Called("exit", "")
    /\ UNCHANGED <<sanVars, visibleVars, fileVars, uploadVars, transportVars, controller, procs, replay_mode, game_was_running,
                   persisted, peerOpen>>

\* process_clip failing
ErrClip == "clip processing failed"

\* a pipeline error leaving the session by a question mark
resume_on_success(result, sendOk) == IF sendOk /\ result = "ok" THEN "enter" ELSE "failed"

\* Where the Saved arm leaves the outer loop (main.rs:143-165): both arms of
\* the match on process_clip's result fall through to the status command,
\* whose failure is the session's.
resume_after_clip(result, sendOk) == IF sendOk THEN "enter" ELSE "failed"

\* The Saved arm of the outer loop (main.rs:132-165).  AppConfig::new and
\* ensure_dirs may fail before the pipeline has the path (the file is gone,
\* a directory cannot be made): the session ends with that error.  Once
\* process_clip has returned, with or without an error, the last-saved
\* path is cleared, the message reset, and the status pushed before the
\* loop is entered again.
ClipDone ==
    /\ pc = "clip"
    /\ \E configOk \in BOOLEAN, result \in {"ok", "err"}, sendOk \in SendAnswers(peerOpen) :
        LET w1 == set_message(clear_last_saved(Here), <<"Replay recorder ready">>)
        IN  IF ~configOk
            THEN /\ result = "ok" /\ sendOk
                 /\ Commit(Here)
                 /\ ret' = [Called("clip_done", "config") EXCEPT !.ok = FALSE]
                 /\ pc' = "failed"
            ELSE /\ Commit(IF sendOk THEN push_status(w1, failed_uploads_list, replay_mode)
                           ELSE status(w1).w)
                 /\ ret' = [Called("clip_done", "handed")
                            EXCEPT !.ok = sendOk,
                                   !.err = IF result = "err" THEN ErrClip ELSE ""]
                 /\ pc' = resume_after_clip(result, sendOk)
    /\ UNCHANGED <<sanVars, visibleVars, fileVars, uploadVars, transportVars, replay_mode, game_was_running,
                   persisted, peerOpen>>

\* the answers of upload_to_youtube: "id" a video id was printed, "none"
\* the uploader ran without printing one, "err" it failed or did not start;
\* an answer is drawn only when a retry finds its record, and the uploader
\* fails on a file that is not there
UploadAnswers(uploads, fs, upload_action, id) ==
    IF upload_action = "retry" /\ get(uploads, id) # <<>>
    THEN IF get(uploads, id)[1].processed_path \in fs THEN {"id", "none", "err"}
         ELSE {"err"}
    ELSE {"none"}

ErrUpload == "youtubeuploader failed"

\* the video ids an upload may return
VideoIds == {<<"v">>}

\* an id no record carries
UnknownId == <<"?">>

\* the discard arm deleting only the finished file
discard_files_processed_only(fs, upload) == fs \ {upload.processed_path}

\* the files after the discard arm's two remove_file calls (main.rs:469-478)
discard_files(fs, upload) == fs \ {upload.processed_path, upload.full_path}

\* retry's relocation moving into the directory of a clip saved without
\* upload
relocate_without_id(fs, upload, video_id) ==
    handle_move_action(fs, upload.full_path, upload.processed_path,
                       display_name(upload.title, upload.game), upload.title)

\* the files after retry's handle_upload_action call (main.rs:418-440)
relocate_uploaded(fs, upload, video_id) ==
    handle_upload_action(fs, upload.full_path, upload.processed_path,
                         display_name(upload.title, upload.game), upload.title, video_id)

\* the match on upload_action (main.rs:394-489): the world, the list and
\* the files afterwards
failed_upload(w0, uploads, fs, upload_action, id, result, video_id) ==
    LET found == get(uploads, id)
        gone == remove(uploads, id)
        same == [w |-> w0, uploads |-> uploads, files |-> fs]
    IN  CASE upload_action = "retry" ->
                IF found = <<>> THEN same
                ELSE LET w1 == Fx(set_message(w0, <<"Retrying upload...">>), "upload")
                     IN  IF result = "id"
                         THEN [w |-> set_message(Fx(w1, "persist_list"), <<"Retry successful!">>),
                               uploads |-> gone.uploads,
                               files |-> relocate_uploaded(fs, found[1], video_id)]
                         ELSE IF result = "none"
                         THEN [same EXCEPT !.w = set_message(w1, <<"Retry failed: no video id">>)]
                         ELSE [same EXCEPT !.w = set_message(w1, <<"Retry failed: ", ErrUpload>>)]
          [] upload_action = "ignore" ->
                [w |-> set_message(Fx(w0, "persist_list"), <<"Upload removed from list">>),
                 uploads |-> gone.uploads, files |-> fs]
          [] upload_action = "discard" ->
                IF gone.removed = <<>> THEN same
                ELSE [w |-> set_message(Fx(w0, "persist_list"), <<"Upload discarded">>),
                      uploads |-> gone.uploads,
                      files |-> discard_files(fs, gone.removed[1])]
          [] OTHER -> same

\* CaptureActionPayload::FailedUpload (main.rs:393-490) and the status push
\* that follows every action (main.rs:493-503)
FailedUpload ==
    /\ pc = "loop" /\ peerOpen
    /\ \E upload_action \in {"retry", "ignore", "discard", "other"},
          id \in {failed_uploads_list[i].id : i \in 1..Len(failed_uploads_list)}
                 \cup {UnknownId},
          video_id \in VideoIds :
       \E result \in UploadAnswers(failed_uploads_list, files, upload_action, id) :
        LET r == failed_upload(Here, failed_uploads_list, files, upload_action, id,
                               result, video_id)
        IN  /\ Commit(push_status(r.w, r.uploads, replay_mode))
            /\ failed_uploads_list' = r.uploads
            /\ files' = r.files
            /\ ret' = [Called("failed_upload", upload_action)
                       EXCEPT !.id = id, !.ok = result = "id",
                              !.err = IF result = "err" THEN ErrUpload ELSE ""]
            /\ UNCHANGED <<sanVars, visibleVars, fileVars, transportVars, now, pc, replay_mode,
                           game_was_running, persisted, peerOpen>>

Next ==
    \/ Startup
    \/ EnterLoop
    \/ Toggle
    \/ Save
    \/ UpdateSettings
    \/ UpdateMode
    \/ FailedUpload
    \/ Tick
    \/ RecorderExits
    \/ PeerCloses
    \/ LoopExit
    \/ ClipDone

Spec == Init /\ [][Next]_vars

\* ------------------------------------------------------------ SpecUploads
\* The failed-uploads list and the processed directory: one-shot runs leave
\* records of uploads that ended without a video id, then a capture session
\* loads the list and the peer retries, ignores and discards the records.
\* failed_uploads_list is the list in failed-uploads.json, which is also the
\* list in memory: it is loaded at startup and saved after every change.

\* how many files the processed directory may hold; the largest reading of
\* the clock
MaxFiles == 4
MaxClock == 1

\* <<safe_title, safe_game>> of the clips: sanitize_text leaves no path
\* separator in them and never an empty title; two titles differ only after
\* their twentieth character
ClipInputs ==
    LET SharedPrefix == [i \in 1..IdTitleChars |-> "a"]
    IN  { <<SharedPrefix \o <<"x">>, <<>>>>,
          <<SharedPrefix \o <<"y">>, <<"g">>>>,
          <<<<"b">>, <<>>>> }

InitUploads ==
    /\ sanIn = ZeroSettings
    /\ sanOut = <<>>
    /\ controller = new(PlainSettings)
    /\ procs = [i \in Pids |-> FreeSlot]
    /\ effects = <<>>
    /\ ret = Called("new", "")
    /\ pc = "startup"
    /\ replay_mode = "Manual"
    /\ game_was_running = FALSE
    /\ persisted = <<>>
    /\ peerOpen = TRUE
    /\ IdleFile
    /\ IdleUploads
    /\ IdleVisible
    /\ IdleTransport

\* A run in process mode whose upload returned no video id (main.rs:34-55
\* with process_clip's arm at 752-779): finalise_files has left the two files
\* in the processed directory, handle_move_action moves them, the record
\* names "{title_with_game}.mp4" and "{safe_title}_raw.mp4" in the
\* destination directory and takes the second SystemTime::now reads as its
\* timestamp.  SystemTime is the wall clock: it is not monotonic, and two
\* readings may fall in the same second.
ProcessUploadFails ==
    /\ pc = "startup"
    /\ Cardinality(files) + 2 <= MaxFiles
    /\ \E clip \in ClipInputs, timestamp \in 0..MaxClock :
        LET safe_title == clip[1]
            safe_game == clip[2]
            out_full == Path(<<>>, safe_title \o <<"_", "f", "u", "l", "l", ".">> \o MP4)
            out_processed == Path(<<>>, safe_title \o <<".">> \o MP4)
            title_with_game == display_name(safe_title, safe_game)
            processed_file == Path(title_with_game, title_with_game \o <<".">> \o MP4)
            full_file == Path(title_with_game, safe_title \o <<"_", "r", "a", "w", ".">> \o MP4)
        IN  /\ files' = handle_move_action(files \cup {out_full, out_processed}, out_full,
                                           out_processed, title_with_game, safe_title)
            /\ failed_uploads_list' =
                   add(failed_uploads_list,
                       new_failed_upload(safe_title, safe_game, processed_file,
                                         full_file, timestamp))
            /\ now' = timestamp
            /\ effects' = <<Ev("persist_list", 0, 0)>>
            /\ ret' = Called("process_upload_fails", "")
            /\ UNCHANGED <<sanVars, visibleVars, fileVars, transportVars, controller, procs, loopVars>>

\* A run in process mode whose uploader exits with a failure
\* (upload.rs:114-126): upload_to_youtube bails, the question mark at
\* main.rs:738 returns the error from process_clip and the one at main.rs:51
\* from the run.  finalise_files has left the two files in the processed
\* directory; nothing is moved, no record is made, nothing is written.
ProcessUploadErrors ==
    /\ pc = "startup"
    /\ Cardinality(files) + 2 <= MaxFiles
    /\ \E clip \in ClipInputs :
        LET safe_title == clip[1]
            out_full == Path(<<>>, safe_title \o <<"_", "f", "u", "l", "l", ".">> \o MP4)
            out_processed == Path(<<>>, safe_title \o <<".">> \o MP4)
        IN  /\ files' = files \cup {out_full, out_processed}
            /\ effects' = <<Ev("upload", 0, 0)>>
            /\ ret' = [Called("process_upload_errors", "")
                       EXCEPT !.ok = FALSE, !.err = ErrUpload]
            /\ UNCHANGED <<sanVars, visibleVars, fileVars, transportVars, controller, procs, loopVars,
                           failed_uploads_list, now>>

NextUploads ==
    \/ ProcessUploadErrors
    \/ ProcessUploadFails
    \/ Startup
    \/ EnterLoop
    \/ FailedUpload

SpecUploads == InitUploads /\ [][NextUploads]_vars

\* ---------------------------------------------------------- SpecTransport
\* The capture loop seen from the inbound stream: the peer writes lines and
\* closes, the worker of spawn_action_task runs wait_for_action on them, and
\* the loop joins the worker.  inbound holds the lines written and not yet
\* read, oldest first, each by its kind; worker is the task: st is
\* "running" or "done", seen the lines it has read in the order it read
\* them ("eof" for the end of the stream), result what wait_for_action
\* returned.

\* how many lines may be under way to one worker
MaxInbound == 3

\* the kinds of OverlayResponse, and a line that does not parse
ResponseKinds ==
    {"picker_result", "trimmer_result", "capture_action", "cancelled", "malformed"}

\* spawn_action_task
spawn_action_task == [st |-> "running", seen |-> <<>>, result |-> ""]

\* recv_response: the oldest line, or the end of a stream the peer closed
recv_response(lines) == IF lines = <<>> THEN "eof" ELSE Head(lines)

\* wait_for_action returning a skipped response as if it were an action
wait_for_action_returns_any(task, line) ==
    [st |-> "done", seen |-> Append(task.seen, line),
     result |-> IF line = "malformed" THEN "err"
                ELSE IF line \in {"eof", "cancelled"} THEN "none" ELSE "action"]

\* wait_for_action ending on a skipped response
wait_for_action_gives_up(task, line) ==
    [st |-> "done", seen |-> Append(task.seen, line),
     result |-> IF line = "malformed" THEN "err"
                ELSE IF line = "capture_action" THEN "action" ELSE "none"]

\* one pass of wait_for_action's loop on the line recv_response read
\* (overlay.rs:264-274): "err" for the error of a line that does not parse,
\* "action" for Ok(Some(action)), "none" for Ok(None)
wait_for_action(task, line) ==
    CASE line = "malformed" ->
            [st |-> "done", seen |-> Append(task.seen, line), result |-> "err"]
      [] line = "capture_action" ->
            [st |-> "done", seen |-> Append(task.seen, line), result |-> "action"]
      [] line \in {"cancelled", "eof"} ->
            [st |-> "done", seen |-> Append(task.seen, line), result |-> "none"]
      [] OTHER -> [task EXCEPT !.seen = Append(@, line)]

\* the session in its loop, Manual mode, no recorder, the first worker
\* started (main.rs:201)
InitTransport ==
    /\ sanIn = ZeroSettings
    /\ sanOut = <<>>
    /\ controller = new(PlainSettings)
    /\ procs = [i \in Pids |-> FreeSlot]
    /\ effects = <<>>
    /\ ret = Called("enter", "")
    /\ pc = "loop"
    /\ replay_mode = "Manual"
    /\ game_was_running = FALSE
    /\ persisted = <<>>
    /\ peerOpen = TRUE
    /\ IdleFile
    /\ IdleUploads
    /\ IdleVisible
    /\ inbound = <<>>
    /\ worker = spawn_action_task
    /\ in_flight = <<>>

\* a loop that starts a worker whatever the arm left
respawn_always(task, p) == spawn_action_task

\* The worker after the arm of a joined worker (main.rs:507-509): a new one
\* is started when the arm left no outcome and no error, i.e. the loop goes
\* on at p = "loop"; otherwise the joined, finished task stays.
respawn(task, p) == IF p = "loop" THEN spawn_action_task ELSE task

\* the peer writes a line
PeerSends ==
    /\ pc \in {"loop", "flush"} /\ peerOpen
    /\ Len(inbound) + Len(worker.seen) < MaxInbound
    /\ \E kind \in ResponseKinds : inbound' = Append(inbound, kind)
    /\ effects' = <<>>
    /\ ret' = Called("peer_sends", "")
    /\ UNCHANGED <<sanVars, visibleVars, fileVars, uploadVars, worker, in_flight, controller, procs,
                   loopVars>>

\* the worker's blocking read returns: a line is there, or the stream ended
WorkerReads ==
    /\ pc \in {"loop", "flush", "clip", "exit"} /\ worker.st = "running"
    /\ inbound # <<>> \/ ~peerOpen
    /\ worker' = wait_for_action(worker, recv_response(inbound))
    /\ inbound' = IF inbound = <<>> THEN inbound ELSE Tail(inbound)
    /\ effects' = <<>>
    /\ ret' = Called("worker_reads", recv_response(inbound))
    /\ UNCHANGED <<sanVars, visibleVars, fileVars, uploadVars, in_flight, controller, procs, loopVars>>

\* The select arm of the finished worker (main.rs:227-234, 393-509): its
\* error leaves run_capture_loop by the two question marks, None ends the
\* loop with Exit, an action is handled, the status pushed and a new worker
\* started.  The actions here are FailedUpload actions naming no record.
Join ==
    /\ select_polled(pc, in_flight) /\ worker.st = "done"
    /\ \E upload_action \in {"ignore", "other"}, sendOk \in SendAnswers(peerOpen) :
        LET r == failed_upload(Here, failed_uploads_list, files, upload_action,
                               UnknownId, "none", <<>>)
            handled == worker.result = "action"
        IN  /\ Commit(IF ~handled THEN Here
                      ELSE IF sendOk THEN push_status(r.w, r.uploads, replay_mode)
                      ELSE status(r.w).w)
            /\ pc' = IF worker.result = "none" THEN "exit"
                     ELSE IF handled /\ sendOk THEN "loop" ELSE "failed"
            /\ worker' = respawn(worker, pc')
            /\ ret' = [Called("join", worker.result) EXCEPT !.ok = pc' # "failed"]
            /\ UNCHANGED <<sanVars, visibleVars, fileVars, uploadVars, inbound, in_flight, replay_mode,
                           game_was_running, persisted, peerOpen>>

NextTransport ==
    \/ PeerSends
    \/ PeerCloses
    \/ WorkerReads
    \/ Join

SpecTransport == InitTransport /\ [][NextTransport]_vars

\* ------------------------------------------------------------ SpecDispatch
\* The capture loop with the Save handler taken step by step: it awaits the
\* two seconds of save_recent inside the select arm, and meanwhile the peer
\* may write and close, the recorder may exit, and a detection tick may fall
\* due.  in_flight holds the durations of the save triggers signalled whose
\* flush wait is not over, oldest first.  The session starts in its loop
\* with the recorder running, in either mode.
InitDispatch ==
    /\ sanIn = ZeroSettings
    /\ sanOut = <<>>
    /\ \E r \in {ensure_running(World(new(PlainSettings), [i \in Pids |-> FreeSlot], <<>>),
                                 TRUE, TRUE)} :
        /\ controller = r.w.c
        /\ procs = r.w.p
    /\ effects = <<>>
    /\ ret = Called("enter", "")
    /\ pc = "loop"
    /\ replay_mode \in {"Manual", "AutoWithGame"}
    /\ game_was_running = (replay_mode = "AutoWithGame")
    /\ persisted = <<>>
    /\ peerOpen = TRUE
    /\ IdleFile
    /\ IdleUploads
    /\ IdleVisible
    /\ inbound = <<>>
    /\ worker = spawn_action_task
    /\ in_flight = <<>>

\* The arm of the finished worker with a Save action, up to the await of
\* save_recent (main.rs:227-288, capture.rs:224-243).  When the signal is
\* sent the handler waits; when save_recent fails before it, the handler
\* runs to its end: report, push, new worker (main.rs:290-319, 493-509).
SaveBegins ==
    /\ select_polled(pc, in_flight)
    /\ worker.st = "done" /\ worker.result = "action"
    /\ \E duration_secs \in {0, 30}, killOk \in BOOLEAN, sendOk \in SendAnswers(peerOpen) :
        LET w0 == status(set_message(Here, <<"Saving replay clip...">>))
            w1 == send_status(w0.w, [build_capture_status(w0.snapshot, failed_uploads_list,
                                                          replay_mode)
                                     EXCEPT !.is_saving = TRUE])
            duration == IF duration_secs = 0 THEN NoDuration ELSE duration_secs
            s == save_signal(w1, duration, killOk)
        IN  IF ~sendOk
            THEN /\ Commit(w0.w)
                 /\ pc' = "failed"
                 /\ ret' = [Called("save_begins", "") EXCEPT !.ok = FALSE]
                 /\ UNCHANGED <<worker, in_flight>>
            ELSE IF s.ok
            THEN /\ Commit(s.w)
                 /\ pc' = "flush"
                 /\ in_flight' = Append(in_flight, duration)
                 /\ ret' = [Called("save_begins", "") EXCEPT !.dur = duration]
                 /\ UNCHANGED worker
            ELSE /\ Commit(report_save(s, failed_uploads_list, replay_mode))
                 /\ pc' = "loop"
                 /\ worker' = spawn_action_task
                 /\ ret' = Returned("save", "", "none", duration, s)
                 /\ UNCHANGED in_flight
    /\ UNCHANGED <<sanVars, visibleVars, fileVars, uploadVars, inbound, replay_mode, game_was_running,
                   persisted, peerOpen>>

\* The rest of the Save handler, from the end of the flush wait
\* (capture.rs:243-260, main.rs:290-319, 493-509): Saved(path) ends the
\* loop; otherwise the result is reported and a new worker started.
SaveEnds ==
    /\ pc = "flush" /\ in_flight # <<>>
    /\ \E listing \in Listings, sendOk \in SendAnswers(peerOpen) :
        LET r == save_collect(Here, listing)
            saved == is_saved(r)
        IN  /\ Commit(IF sendOk THEN report_save(r, failed_uploads_list, replay_mode)
                      ELSE status(r.w).w)
            /\ pc' = IF ~sendOk THEN "failed" ELSE IF saved THEN "clip" ELSE "loop"
            /\ worker' = respawn(worker, pc')
            /\ in_flight' = Tail(in_flight)
            /\ ret' = [Returned("save", "", "none", Head(in_flight), r)
                       EXCEPT !.ok = r.ok /\ sendOk]
    /\ UNCHANGED <<sanVars, visibleVars, fileVars, uploadVars, inbound, replay_mode, game_was_running,
                   persisted, peerOpen>>

NextDispatch ==
    \/ PeerSends
    \/ PeerCloses
    \/ RecorderExits
    \/ WorkerReads
    \/ Join
    \/ Tick
    \/ SaveBegins
    \/ SaveEnds

SpecDispatch == InitDispatch /\ [][NextDispatch]_vars

\* ================================================================ claims
Events(fx, e) == {i \in 1..Len(fx) : fx[i].e = e}
Count(fx, e) == Cardinality(Events(fx, e))
Has(fx, e) == Events(fx, e) # {}

Alive(p) == {i \in Pids : p[i].st = "alive"}
\* the controller holds a child whose process has not exited
LiveHeld == controller.child # NoChild /\ procs[controller.child].st = "alive"

\* C1: under any sequence of ensure_running, stop, apply_settings,
\* save_recent, status and spontaneous recorder exits, at most one recorder
\* process is alive and no process exists that the controller does not
\* hold; an ensure_running called while a live recorder is held spawns
\* nothing and leaves the handle and the process table as they were.
C1_AtMostOneRecorder ==
    [][ /\ Cardinality(Alive(procs')) <= 1
        /\ \A i \in Pids : procs'[i].st # "free" => controller'.child = i
        /\ (ret'.op = "ensure_running" /\ LiveHeld
               => /\ ~Has(effects', "spawn")
                  /\ controller'.child = controller.child
                  /\ procs' = procs
                  /\ ret'.ok) ]_vars

\* C1 witness: an ensure_running that returned early on a live recorder
C1_Witness ==
    /\ ret.op = "ensure_running"
    /\ effects = <<Ev("ensure_running", 0, 0)>>
    /\ LiveHeld

\* C2: in AutoWithGame, of two successive detection evaluations the second
\* invokes start exactly once when presence went from absent to present,
\* stop exactly once when presence went from present to absent after the
\* recorder had been started for it, and neither start nor stop when
\* presence is what the first evaluation saw.
C2_EdgeTriggered ==
    [][ (/\ ret'.op = "tick"
         /\ ret.det \in {"game", ""}
         /\ ret'.det \in {"game", ""})
        => LET starts == Count(effects', "ensure_running")
               stops == Count(effects', "stop")
           IN  /\ (ret.det = "" /\ ret'.det = "game" => starts = 1 /\ stops = 0)
               /\ (ret.det = "game" /\ game_was_running /\ ret'.det = ""
                      => starts = 0 /\ stops = 1)
               /\ (ret.det = ret'.det => starts = 0 /\ stops = 0) ]_vars

\* C3: an UpdateMode that changes the mode from AutoWithGame to Manual
\* leaves the controller without a child, no recorder process alive and
\* the remembered presence flag false.
C3_ManualStops ==
    [][ (/\ ret'.op = "update_mode"
         /\ replay_mode = "AutoWithGame"
         /\ replay_mode' = "Manual")
        => /\ controller'.child = NoChild
           /\ Alive(procs') = {}
           /\ ~ReplayStatus(controller').running
           /\ ~game_was_running' ]_vars

\* C3 witness: an UpdateMode to Manual that interrupted a held recorder
C3_Witness ==
    /\ ret.op = "update_mode"
    /\ replay_mode = "Manual"
    /\ Has(effects, "kill")
    /\ controller.child = NoChild

\* C4: an UpdateMode whose mode is the current mode invokes neither start
\* nor stop, spawns and signals nothing, runs no detection, persists
\* nothing, and leaves the mode, the presence flag, the settings file and
\* the set of live recorder processes as they were.
C4_SameModeNoEffect ==
    [][ (ret'.op = "update_mode" /\ parse_mode(ret'.arg) = replay_mode)
        => /\ \A e \in {"ensure_running", "stop", "spawn", "kill", "kill_failed",
                        "wait", "wait_failed", "detect", "persist", "persist_failed"} :
                  ~Has(effects', e)
           /\ ret'.det = "none"
           /\ replay_mode' = replay_mode
           /\ game_was_running' = game_was_running
           /\ persisted' = persisted
           /\ Alive(procs') = Alive(procs) ]_vars

\* C4 witness: UpdateMode "auto" handled in AutoWithGame with the recorder
\* running and the presence flag set
C4_Witness ==
    /\ ret.op = "update_mode"
    /\ ret.arg = "auto"
    /\ ret.det = "none"
    /\ replay_mode = "AutoWithGame"
    /\ game_was_running
    /\ LiveHeld

\* C5: save_recent called while no live recorder is held (no child, or a
\* child that has exited and was not yet reaped) returns the "not running"
\* error, sends no signal, does not sleep, and leaves last_saved unchanged.
C5_SaveNotRunning ==
    [][ (ret'.op = "save_recent" /\ ~LiveHeld)
        => /\ ~ret'.ok
           /\ ret'.err = "replay recorder is not running"
           /\ \A e \in {"kill", "kill_failed", "sleep"} : ~Has(effects', e)
           /\ controller'.last_saved = controller.last_saved
           /\ ret'.path = NoPath ]_vars

\* C5 witness: a save_recent that reaped an exited recorder and refused
C5_Witness ==
    /\ ret.op = "save_recent"
    /\ ret.dur = 30
    /\ ~ret.ok
    /\ Has(effects, "reap")

\* the six durations of the wire table
TableDurations == {10, 30, 60, 300, 600, 1800}

\* C6: the signal save_recent delivers is SIGRTMIN+1..+6 for 10, 30, 60,
\* 300, 600, 1800 s, each above the real-time base and no two the same, and
\* SIGUSR1 for an absent duration and for every duration outside the table.
C6_SignalTable ==
    /\ (ret.op = "save_recent" /\ Has(effects, "kill"))
        => LET sent == effects[CHOOSE i \in Events(effects, "kill") : TRUE].arg
           IN  /\ Count(effects, "kill") = 1
               /\ ret.dur = 10 => sent = SIGRTMIN + 1
               /\ ret.dur = 30 => sent = SIGRTMIN + 2
               /\ ret.dur = 60 => sent = SIGRTMIN + 3
               /\ ret.dur = 300 => sent = SIGRTMIN + 4
               /\ ret.dur = 600 => sent = SIGRTMIN + 5
               /\ ret.dur = 1800 => sent = SIGRTMIN + 6
               /\ ret.dur \notin TableDurations => sent = SIGUSR1
    /\ \A d \in TableDurations : raw_signal(d) > SIGRTMIN
    /\ \A d1 \in TableDurations, d2 \in TableDurations :
           d1 # d2 => raw_signal(d1) # raw_signal(d2)
    /\ \A d \in DurationInputs \ TableDurations : raw_signal(d) = SIGUSR1

\* C6 witness: a 1800 s save delivered as SIGRTMIN+6
C6_Witness ==
    /\ ret.op = "save_recent"
    /\ ret.dur = 1800
    /\ \E i \in Events(effects, "kill") : effects[i].arg = SIGRTMIN + 6

\* C7: stop on a controller that holds no child succeeds and leaves the
\* status snapshot and the process table unchanged, every time it is called.
C7_IdempotentStop ==
    [][ (ret'.op = "stop" /\ controller.child = NoChild)
        => /\ ret'.ok
           /\ ReplayStatus(controller') = ReplayStatus(controller)
           /\ procs' = procs
           /\ effects' = <<Ev("stop", 0, 0)>> ]_vars

\* C7 witness: stop found no child and the exit diagnostic is still the
\* last message
C7_Witness ==
    /\ ret.op = "stop"
    /\ effects = <<Ev("stop", 0, 0)>>
    /\ controller.last_message = <<"Replay recorder exited: ", "status">>

\* C8: after stop the controller holds no child, whatever the outcome of
\* the interrupt and of the wait and whether the recorder was alive.
C8_StopClearsHandle ==
    ret.op = "stop" => controller.child = NoChild /\ ret.ok

\* C8 witness: a stop whose interrupt and wait both failed
C8_Witness ==
    /\ ret.op = "stop"
    /\ Has(effects, "kill_failed")
    /\ Has(effects, "wait_failed")
    /\ controller.child = NoChild

\* C9: sanitize turns a zero buffer length, bitrate and frame rate into 60,
\* 60000 and 60, keeps positive values, so that all three are positive
\* afterwards, and maps {0, 0, 0, []} to {60, 60000, 60, ["default_input"]}.
C9_NumericDefaults ==
    sanOut # <<>> =>
        LET o == sanOut[1]
        IN  /\ o.buffer_seconds = (IF sanIn.buffer_seconds = 0 THEN 60 ELSE sanIn.buffer_seconds)
            /\ o.bitrate = (IF sanIn.bitrate = 0 THEN 60000 ELSE sanIn.bitrate)
            /\ o.fps = (IF sanIn.fps = 0 THEN 60 ELSE sanIn.fps)
            /\ o.buffer_seconds > 0 /\ o.bitrate > 0 /\ o.fps > 0
            /\ o.target = sanIn.target
            /\ (sanIn = ZeroSettings
                  => o = MkSettings(sanIn.target, 60, 60000, 60, <<DefaultTrack>>))

\* C9 witness: the all-zero scenario after sanitize
C9_Witness ==
    /\ sanIn = ZeroSettings
    /\ sanOut = <<MkSettings(<<"m">>, 60, 60000, 60, <<DefaultTrack>>)>>

\* C10: after sanitize the audio-track list is never empty.
C10_TracksNonEmpty ==
    sanOut # <<>> => sanOut[1].audio_tracks # <<>>

\* C11: a load that follows a successful save of a PersistedSettings value
\* returns that value, equal in buffer length, bitrate, frame rate, target,
\* audio tracks, mode and enabled flag; a load made while no settings file
\* exists returns "nothing persisted" and not an error.
C11_RoundTrip ==
    psOut # <<>> =>
        IF settings_file = <<>>
        THEN psOut[1].ok /\ psOut[1].val = <<>>
        ELSE /\ psOut[1].ok
             /\ Len(psOut[1].val) = 1
             /\ LET q == psOut[1].val[1]
                IN  /\ q.buffer_seconds = psIn.buffer_seconds
                    /\ q.bitrate = psIn.bitrate
                    /\ q.fps = psIn.fps
                    /\ q.target = psIn.target
                    /\ q.audio_tracks = psIn.audio_tracks
                    /\ q.replay_mode = psIn.replay_mode
                    /\ q.replay_enabled = psIn.replay_enabled

\* C11 witness: a value whose target holds a backslash and a quote and whose
\* tracks hold both, loaded back from the file it was saved to
C11_Witness ==
    /\ settings_file # <<>>
    /\ psOut # <<>>
    /\ psIn.target = <<"\\", "\"">>
    /\ psIn.audio_tracks = <<<<"m">>, <<"\\", "\"">>>>
    /\ psIn.buffer_seconds = 2147483647
    /\ psOut[1].val = <<psIn>>

\* C12: every live recorder process was started with a command line built
\* from the settings the controller stores now (target, frame rate, bitrate,
\* buffer length, audio tracks), after any sequence of ensure_running,
\* apply_settings, stop, save_recent, status and recorder exits; an
\* apply_settings whose restart failed leaves no recorder process alive.
C12_LiveMatchesStored ==
    /\ \A i \in Pids :
          procs[i].st = "alive" =>
              LET cmd == procs[i].cmd[1]
              IN  /\ cmd.target = controller.settings.target
                  /\ cmd.fps = controller.settings.fps
                  /\ cmd.bitrate = controller.settings.bitrate
                  /\ cmd.buffer_seconds = controller.settings.buffer_seconds
                  /\ cmd.audio = controller.settings.audio_tracks
    /\ (ret.op = "apply_settings" /\ ~ret.ok) => Alive(procs) = {}

\* C12 witness: apply_settings interrupted a live recorder and started a
\* new one with the normalized all-zero settings
C12_Witness ==
    /\ ret.op = "apply_settings"
    /\ ret.ok
    /\ Has(effects, "kill")
    /\ Has(effects, "spawn")
    /\ LiveHeld
    /\ controller.settings = sanitize(ZeroSettings)
    /\ procs[controller.child].cmd[1].fps = DefaultFps

\* the ids the failed-uploads list carries
ListedIds(uploads) == {uploads[i].id : i \in 1..Len(uploads)}
\* uploads without its i-th record
Without(uploads, i) == SubSeq(uploads, 1, i - 1) \o SubSeq(uploads, i + 1, Len(uploads))

\* C13: a discard action for a listed id takes one record with that id out
\* of the list and deletes the finished file and the raw file the record
\* names, and nothing else in the processed directory; an ignore action
\* takes the record out and leaves the processed directory as it was; in
\* both cases the other records stay, in their order.
C13_DiscardAndIgnore ==
    [][ (/\ ret'.op = "failed_upload"
         /\ ret'.arg \in {"discard", "ignore"}
         /\ ret'.id \in ListedIds(failed_uploads_list))
        => \E i \in 1..Len(failed_uploads_list) :
              /\ failed_uploads_list[i].id = ret'.id
              /\ failed_uploads_list' = Without(failed_uploads_list, i)
              /\ IF ret'.arg = "discard"
                 THEN files' = files \ {failed_uploads_list[i].processed_path,
                                        failed_uploads_list[i].full_path}
                 ELSE files' = files ]_vars

\* a discard took one of two records and its two files, the other record
\* and its files are still there
C13_Witness ==
    /\ ret.op = "failed_upload" /\ ret.arg = "discard"
    /\ ret.id \notin ListedIds(failed_uploads_list) \cup {UnknownId}
    /\ Len(failed_uploads_list) = 1
    /\ Cardinality(files) = 2
    /\ {failed_uploads_list[1].processed_path, failed_uploads_list[1].full_path} = files

\* C14: a retry for a listed id takes the record out of the list exactly
\* when the upload returned a video id; its two files then leave the places
\* the record names and arrive in the directory "{title_with_game}
\* [{video_id}]" where a finished upload puts its files, and nothing else in
\* the processed directory changes.  When the upload fails or returns no
\* video id the list and the processed directory stay as they were.
C14_Retry ==
    [][ (/\ ret'.op = "failed_upload"
         /\ ret'.arg = "retry"
         /\ ret'.id \in ListedIds(failed_uploads_list))
        => LET i == position(failed_uploads_list, ret'.id)
               u == failed_uploads_list[i]
               named == {u.processed_path, u.full_path}
           IN  IF ret'.ok
               THEN /\ failed_uploads_list' = Without(failed_uploads_list, i)
                    /\ files \ files' = named \cap files
                    /\ Cardinality(files') = Cardinality(files)
                    /\ \E video_id \in VideoIds :
                         \A f \in files' \ files :
                            f.dir = display_name(u.title, u.game)
                                    \o <<" ", "[">> \o video_id \o <<"]">>
               ELSE /\ failed_uploads_list' = failed_uploads_list
                    /\ files' = files ]_vars

\* a retry that returned a video id: the record is gone and its two files
\* are in the upload's directory
C14_Witness ==
    /\ ret.op = "failed_upload" /\ ret.arg = "retry" /\ ret.ok
    /\ ret.id \notin ListedIds(failed_uploads_list)
    /\ Cardinality({f \in files : f.dir = <<"b", " ", "[", "v", "]">>}) = 2

\* C15: the ids of the records in the failed-uploads list are pairwise
\* distinct, whatever records were created (two in the same second with
\* titles sharing their first twenty characters included) and removed.
C15_DistinctIds ==
    \A i, j \in 1..Len(failed_uploads_list) :
        i # j => failed_uploads_list[i].id # failed_uploads_list[j].id

\* the line on which the worker's wait_for_action ended
LastSeen == worker.seen[Len(worker.seen)]

\* C16 as stated: the loop ends with Exit only when the worker returned on
\* the end of the stream; no line received while the stream is open ends
\* it with Exit.
C16_ExitOnlyOnClose ==
    pc = "exit" => LastSeen = "eof"

\* C16, amended: a step ends the loop with Exit if and only if it is the
\* join of a worker whose wait_for_action returned on the end of the stream
\* or on a cancellation; picker results, trimmer results, capture actions
\* and malformed lines never end the loop with Exit.
C16_ExitOnNoMoreActions ==
    [][ pc' = "exit" <=> (/\ ret'.op = "join"
                          /\ worker.st = "done"
                          /\ LastSeen \in {"eof", "cancelled"}) ]_vars

\* the loop ended with Exit on a cancellation while the stream was open
C16_Witness ==
    /\ pc = "exit" /\ peerOpen
    /\ ret.op = "join"
    /\ LastSeen = "cancelled"

\* C17: the join of a worker that read a malformed line leaves the loop
\* running with the controller, the recorder and the mode as they were and
\* a worker awaiting the next action.
C17_MalformedKeepsLoop ==
    [][ (ret'.op = "join" /\ LastSeen = "malformed")
        => /\ pc' = "loop"
           /\ controller' = controller /\ procs' = procs
           /\ replay_mode' = replay_mode
           /\ worker'.st = "running" ]_vars

\* C18: the worker reads the lines oldest first; while it is running it has
\* read picker and trimmer results only; when wait_for_action has returned,
\* every line before the last was a picker or trimmer result, an action was
\* returned exactly on a capture action, and nothing was returned exactly
\* on a cancellation or the end of the stream (a malformed line is the one
\* other way out, as an error).
C18_SkipsInOrder ==
    [][ /\ ret'.op = "worker_reads" /\ inbound # <<>>
           => /\ worker'.seen = Append(worker.seen, Head(inbound))
              /\ inbound' = Tail(inbound)
        /\ LET seen == worker'.seen
               n == Len(seen)
               Skipped == {"picker_result", "trimmer_result"}
           IN  IF worker'.st = "running"
               THEN \A i \in 1..n : seen[i] \in Skipped
               ELSE /\ n >= 1
                    /\ \A i \in 1..(n - 1) : seen[i] \in Skipped
                    /\ seen[n] \notin Skipped
                    /\ worker'.result = "action" <=> seen[n] = "capture_action"
                    /\ worker'.result = "none" <=> seen[n] \in {"cancelled", "eof"} ]_vars

\* a picker result and a trimmer result were skipped and the capture action
\* behind them returned
C18_Witness ==
    /\ worker.st = "done" /\ worker.result = "action"
    /\ worker.seen = <<"picker_result", "trimmer_result", "capture_action">>

\* the handlers of the inbound capture actions
ActionOps == {"toggle", "save", "update_settings", "update_mode", "failed_upload"}

\* C19: every handling of a Toggle, Save, UpdateSettings, UpdateMode or
\* FailedUpload action that leaves the loop running ends with a status
\* command to the peer: the push is the last thing the handler does, before
\* any other action or tick is handled.
C19_PushAfterAction ==
    [][ (ret'.op \in ActionOps /\ pc' = "loop")
        => /\ effects' # <<>>
           /\ effects'[Len(effects')].e = "push" ]_vars

\* a Save that failed: the saving status, the status of the failure and the
\* push that follows every action
C19_Witness ==
    /\ ret.op = "save" /\ ~ret.ok /\ pc = "loop"
    /\ Count(effects, "push") = 3
    /\ effects[Len(effects)].e = "push"

\* C20: the last status command of every action's handling carries the
\* payload build_capture_status gives for the state the handling leaves:
\* the running flag, the settings, the last-saved path and the message of
\* the controller, the mode and the failed uploads as they are after the
\* action, the final push of a Save that ends the loop with Saved included.
C20_NoStaleStatus ==
    [][ (/\ ret'.op \in ActionOps
         /\ effects' # <<>>
         /\ effects'[Len(effects')].e = "push")
        => effects'[Len(effects')].arg
               = build_capture_status(ReplayStatus(controller'), failed_uploads_list',
                                      replay_mode') ]_vars

\* C21: the handlers of the capture loop run one after another.  At most
\* one save trigger is signalled and not yet collected; a handler (of a
\* joined action or of a detection tick) begins only when no handler is
\* under way; and while a Save handler waits for the flush, nothing but the
\* peer and the recorder process moves: the controller, the worker, the mode
\* and the presence flag stay as they are and nothing is done to any process.
C21_SequentialDispatch ==
    [][ LET env == ret'.op \in {"peer_sends", "peer_closes", "recorder_exits", "worker_reads"}
            ends == in_flight # <<>> /\ in_flight' = <<>> /\ ret'.op = "save"
        IN  /\ Len(in_flight') <= 1
            /\ ~env /\ ~ends => in_flight = <<>>
            /\ in_flight # <<>> /\ ~ends
               => /\ controller' = controller /\ worker' = worker
                  /\ replay_mode' = replay_mode /\ game_was_running' = game_was_running
                  /\ effects' = <<>> ]_vars

\* a Save handler has run to its end and started the next worker, with a
\* line of the peer waiting that arrived while the handler was under way
C21_Witness ==
    /\ ret.op = "save" /\ Has(effects, "sleep")
    /\ pc = "loop" /\ in_flight = <<>>
    /\ worker = spawn_action_task
    /\ inbound # <<>>

C23_NoAutomaticRetry ==
    [][ /\ (/\ Has(effects', "ensure_running") /\ ~Has(effects', "spawn")
            /\ controller'.child = NoChild)
           => /\ Len(controller'.last_message) = 2
              /\ controller'.last_message[2] \in {ErrMkdir, ErrSpawn}
              /\ pc' # "failed"
        /\ (/\ ret'.op = "tick" /\ ret.op \in {"tick", "enter"}
            /\ ret.det = ret'.det
            /\ controller.child = NoChild
            /\ Len(controller.last_message) = 2
            /\ controller.last_message[2] \in {ErrMkdir, ErrSpawn})
           => ~Has(effects', "ensure_running") ]_vars

\* C24: when the ensure_running of session startup cannot create the output
\* directory, the session ends with that error: it does not go on to show
\* the capture panel and enter the event loop.
C24_StartupMkdirFatal ==
    [][ (/\ ret'.op = "startup" /\ ret'.arg = "start"
         /\ Has(effects', "ensure_running")
         /\ controller'.last_message = <<"Failed to start replay: ", ErrMkdir>>)
        => pc' = "failed" ]_vars

\* C25: a detection that fails never fails the session and is handled as a
\* detection of no game: in AutoWithGame with the presence flag set the
\* recorder is stopped and the flag cleared, with the flag clear nothing
\* changes.
C25_DetectorFailureIsNoGame ==
    [][ (ret'.op = "tick" /\ ret'.det = "err" /\ replay_mode = "AutoWithGame")
        => /\ pc' # "failed"
           /\ ~game_was_running'
           /\ IF game_was_running
              THEN Has(effects', "stop") /\ controller'.child = NoChild
              ELSE controller' = controller /\ procs' = procs ]_vars

\* C26: a Toggle handled in AutoWithGame mode, enabling or disabling, leaves
\* the recorder alone: no start, stop or signal; the mode, the presence flag,
\* the settings file, the settings and the last-saved path are unchanged and
\* nothing is persisted.  The message becomes "Toggle disabled in auto mode"
\* (unless the status push finds that the recorder has exited on its own and
\* reports that), and the status is pushed.
C26_ToggleIgnoredInAuto ==
    [][ (ret'.op = "toggle" /\ replay_mode = "AutoWithGame")
        => /\ \A i \in 1..Len(effects') :
                  effects'[i].e \notin {"ensure_running", "spawn", "stop", "kill",
                                        "persist", "persist_failed"}
           /\ Alive(procs') = Alive(procs)
           /\ replay_mode' = replay_mode /\ game_was_running' = game_was_running
           /\ persisted' = persisted
           /\ controller'.settings = controller.settings
           /\ controller'.last_saved = controller.last_saved
           /\ controller'.child = (IF LiveHeld THEN controller.child ELSE NoChild)
           /\ (LiveHeld \/ controller.child = NoChild)
              => controller'.last_message = <<"Toggle disabled in auto mode">>
           /\ pc' = pc ]_vars

\* an enabling Toggle was handled in AutoWithGame mode while no recorder
\* runs, and none runs afterwards
C26_Witness ==
    /\ ret.op = "toggle" /\ ret.arg = "on"
    /\ replay_mode = "AutoWithGame"
    /\ controller.child = NoChild /\ Alive(procs) = {}
    /\ controller.last_message = <<"Toggle disabled in auto mode">>
    /\ Has(effects, "push")

C28_ManualTickOnlyClearsFlag ==
    [][ (ret'.op = "tick" /\ replay_mode = "Manual")
        => /\ effects' = <<>>
           /\ controller' = controller /\ procs' = procs
           /\ replay_mode' = replay_mode
           /\ persisted' = persisted
           /\ failed_uploads_list' = failed_uploads_list /\ files' = files
           /\ ~game_was_running'
           /\ pc' = "loop" ]_vars

\* a tick was handled in Manual mode while the recorder runs
C28_Witness ==
    /\ ret.op = "tick" /\ ret.det = "none"
    /\ replay_mode = "Manual"
    /\ LiveHeld
    /\ ~game_was_running
    /\ effects = <<>>

\* C29: before the event loop the recorder is started exactly when the
\* restored mode is Manual and the start flag is set, the start flag being
\* the persisted enabled flag when settings were restored with mode Manual
\* and the CLI auto-start flag otherwise.  With AutoWithGame restored,
\* startup does nothing to the recorder, and the entry to the loop starts it
\* only on a detection of a game; the entry in Manual mode starts nothing.
C29_StartBeforeLoop ==
    [][ /\ ret'.op = "startup"
           => LET restored == ret'.det = "restored"
                  auto_start == ret'.id # <<>>
                  mode == IF restored THEN persisted[1].replay_mode ELSE "Manual"
                  flag == IF restored /\ mode = "Manual" THEN persisted[1].replay_enabled
                          ELSE auto_start
              IN  /\ restored => persisted # <<>>
                  /\ replay_mode' = mode
                  /\ Has(effects', "ensure_running") <=> (mode = "Manual" /\ flag)
                  /\ Alive(procs') # {} => mode = "Manual" /\ flag
                  /\ mode = "AutoWithGame"
                     => effects' = <<>> /\ controller'.child = NoChild
        /\ (ret'.op = "enter" /\ Has(effects', "ensure_running"))
           => /\ replay_mode = "AutoWithGame"
              /\ ret'.det = "game"
              /\ Has(effects', "detect") ]_vars

\* settings restored with mode Manual and the enabled flag clear, the CLI
\* asking for a start: the recorder is not started
C29_Witness ==
    /\ ret.op = "startup" /\ ret.arg = ""
    /\ ret.det = "restored" /\ ret.id = <<"auto_start">>
    /\ persisted # <<>> /\ persisted[1].replay_mode = "Manual"
    /\ ~persisted[1].replay_enabled
    /\ replay_mode = "Manual"
    /\ controller.child = NoChild /\ Alive(procs) = {}
    /\ pc = "enter"

\* C30: once the recorder has exited on its own, the next status snapshot
\* clears the handle, reports it as not running and leaves the exit
\* diagnostic as the message; an ensure_running that succeeds then holds a
\* newly spawned, live process; and every signal the controller sends goes
\* to a process that is alive.
C30_ExitedRecorder ==
    [][ LET exited == controller.child # NoChild /\ procs[controller.child].st = "exited"
        IN  /\ (ret'.op = "status" /\ exited)
               => /\ controller'.child = NoChild
                  /\ ~ReplayStatus(controller').running
                  /\ controller'.last_message = <<"Replay recorder exited: ", "status">>
            /\ (ret'.op = "ensure_running" /\ ret'.ok /\ exited)
               => /\ Has(effects', "reap") /\ Has(effects', "spawn")
                  /\ controller'.child # NoChild
                  /\ procs'[controller'.child].st = "alive"
            /\ \A i \in 1..Len(effects') :
                   effects'[i].e \in {"kill", "kill_failed"}
                   => procs[effects'[i].pid].st = "alive" ]_vars

\* C31: an apply_settings called while no recorder process is alive (never
\* started, stopped, or exited on its own and not yet reaped) replaces the
\* stored settings and does nothing else: no stop, no signal, no spawn, and
\* no process is alive afterwards.
C31_ApplyWithoutRecorder ==
    [][ (ret'.op = "apply_settings" /\ ~LiveHeld)
        => /\ \A i \in 1..Len(effects') :
                  effects'[i].e \notin {"stop", "kill", "kill_failed", "ensure_running", "spawn"}
           /\ Alive(procs') = {}
           /\ ret'.ok ]_vars

\* C32: every run of the clip pipeline whose upload does not complete (the
\* uploader exits with a failure, or it finishes without a video id) appends
\* one FailedUpload record to the list and writes the list.
C32_FailedUploadRecorded ==
    [][ ret'.op \in {"process_upload_fails", "process_upload_errors"}
        => /\ Len(failed_uploads_list') = Len(failed_uploads_list) + 1
           /\ Has(effects', "persist_list") ]_vars

\* C33: whenever a detection made in AutoWithGame mode (at the entry to the
\* loop, on a tick, or right after the switch from Manual) reports that no
\* game is present, the recorder is not running afterwards: the controller
\* holds no process and none is alive.
C33_NoGameNoRecorder ==
    [][ (/\ ret'.op \in {"enter", "tick", "update_mode"}
         /\ ret'.det = ""
         /\ replay_mode' = "AutoWithGame")
        => controller'.child = NoChild /\ Alive(procs') = {} ]_vars

\* C34: in AutoWithGame mode, when the loop that ended with Saved had the
\* presence flag set and the detection at the next entry to the loop finds
\* no game, that entry stops the recorder: the transition is not lost
\* across the clip processing.
C34_TransitionAcrossSave ==
    [][ (/\ pc = "enter" /\ game_was_running
         /\ replay_mode = "AutoWithGame"
         /\ ret'.op = "enter" /\ ret'.det = "")
        => /\ LiveHeld => Has(effects', "stop")
           /\ controller'.child = NoChild
           /\ Alive(procs') = {} ]_vars

\* C35: whenever a Toggle, UpdateSettings or UpdateMode handler writes the
\* settings file, the enabled flag it writes says whether the recorder is
\* running when the handler ends, a start that failed included.
C35_PersistedEnabledIsRunning ==
    [][ (ret'.op \in {"toggle", "update_settings", "update_mode"} /\ Has(effects', "persist"))
        => /\ persisted' # <<>>
           /\ persisted'[1].replay_enabled = ReplayStatus(controller').running ]_vars

\* C36: after the handling of an UpdateSettings action the settings file
\* holds the buffer length, bitrate, frame rate, target and audio tracks
\* that the controller holds, whatever the request carried and whether or
\* not the restart of the recorder succeeded.
C36_PersistedMatchesHeld ==
    [][ ret'.op = "update_settings"
        => /\ persisted' # <<>>
           /\ persisted'[1].buffer_seconds = controller'.settings.buffer_seconds
           /\ persisted'[1].bitrate = controller'.settings.bitrate
           /\ persisted'[1].fps = controller'.settings.fps
           /\ persisted'[1].target = controller'.settings.target
           /\ persisted'[1].audio_tracks = controller'.settings.audio_tracks ]_vars

\* C37: whenever the controller holds a live recorder, a save_recent whose
\* signal is delivered and whose scan of the output directory succeeds
\* returns a regular file of that directory that no regular file is newer
\* than, and records it as last saved, if the directory holds a regular
\* file at all (new or old); it returns none exactly when the directory
\* holds no regular file, and then the last-saved path is cleared.
C37_LatestRegularFile ==
    LiveHeld
    => \A l \in Listings, d \in {NoDuration, 30} :
           LET r == save_recent(Here, d, TRUE, l)
               regs == {i \in 1..Len(l.entries) : l.entries[i].is_file}
           IN  l.ok
               => /\ r.ok
                  /\ r.w.c.last_saved = r.path
                  /\ r.path = NoPath <=> regs = {}
                  /\ regs # {}
                     => \E i \in regs :
                            /\ l.entries[i].path = r.path
                            /\ \A j \in regs : l.entries[j].modified <= l.entries[i].modified

\* a save on a live recorder has returned a file, which is recorded as last
\* saved: the next save starts from a last-saved path that is set
C37_Witness ==
    /\ ret.op = "save_recent" /\ ret.ok /\ ret.path # NoPath
    /\ LiveHeld
    /\ controller.last_saved = ret.path
    /\ controller.last_message = <<"Replay saved">>

MaxPresses == 2
MaxClips == 1

\* the places the session task calls set_overlay_visible from: the Save
\* handler (main.rs:300), before and after process_clip (main.rs:142, 154)
\* and the shutdown (main.rs:172)
SetVisibleSites == {"save", "clip_begin", "clip_end", "shutdown"}

\* the `visible` argument at each of them
site_visible(site) == site \in {"save", "clip_begin"}

\* the call that follows a call in run_capture_mode's loop (main.rs:121-174)
next_sites(site) ==
    CASE site = "start" -> {"save", "shutdown"}
      [] site = "save" -> {"clip_begin"}
      [] site = "clip_begin" -> {"clip_end"}
      [] site = "clip_end" -> {"save", "shutdown"}
      [] OTHER -> {}

\* set_overlay_visible's test (main.rs:794)
differs(flag, wanted) == flag # wanted

\* where the session task stands after a call made at `site` returned:
\* an error leaves run_capture_mode by the question mark, except at the
\* shutdown, where it is logged (main.rs:172-174)
after_call(site, ok) ==
    IF site = "shutdown" THEN "done" ELSE IF ok THEN "between" ELSE "failed"

InitVisible ==
    /\ sanIn = ZeroSettings
    /\ sanOut = <<>>
    /\ controller = new(PlainSettings)
    /\ procs = [i \in Pids |-> FreeSlot]
    /\ effects = <<>>
    /\ ret = Called("enter", "")
    /\ pc = "loop"
    /\ replay_mode = "Manual"
    /\ game_was_running = FALSE
    /\ persisted = <<>>
    /\ peerOpen = TRUE
    /\ IdleFile
    /\ IdleUploads
    /\ IdleTransport
    /\ visible = FALSE
    /\ last_visibility = <<>>
    /\ hotkey_task = [st |-> "polling", desired |-> FALSE, presses |-> 0]
    /\ session_task = [st |-> "between", site |-> "start", clips |-> 0]

\* the peer goes away: from now on a send may fail
OverlayCloses ==
    /\ peerOpen
    /\ peerOpen' = FALSE
    /\ effects' = <<>>
    /\ ret' = Called("overlay_closes", "")
    /\ UNCHANGED <<sanVars, visibleVars, fileVars, uploadVars, transportVars,
                   controller, procs, pc, replay_mode, game_was_running, persisted>>

\* the hotkey is pressed: the listener loads the flag (main.rs:865)
HotkeyLoads ==
    /\ hotkey_task.st = "polling"
    /\ hotkey_task.presses < MaxPresses
    /\ hotkey_task' = [st |-> "loaded", desired |-> ~visible,
                       presses |-> hotkey_task.presses + 1]
    /\ effects' = <<>>
    /\ ret' = Called("hotkey_loads", "")
    /\ UNCHANGED <<sanVars, fileVars, uploadVars, transportVars, sessionVars,
                   visible, last_visibility, session_task>>

\* the listener sends (main.rs:866-867): a failure is logged, nothing stored
HotkeySends ==
    /\ hotkey_task.st = "loaded"
    /\ \E sendOk \in SendAnswers(peerOpen) :
        /\ hotkey_task' = [hotkey_task EXCEPT !.st = IF sendOk THEN "sent" ELSE "polling"]
        /\ last_visibility' = IF sendOk THEN <<hotkey_task.desired>> ELSE last_visibility
        /\ effects' = IF sendOk THEN <<Ev("set_visibility", 0, 0)>> ELSE <<>>
        /\ ret' = [Called("hotkey_sends", "") EXCEPT !.ok = sendOk]
    /\ UNCHANGED <<sanVars, fileVars, uploadVars, transportVars, sessionVars,
                   visible, session_task>>

\* the listener stores what it sent (main.rs:869)
HotkeyStores ==
    /\ hotkey_task.st = "sent"
    /\ visible' = hotkey_task.desired
    /\ hotkey_task' = [hotkey_task EXCEPT !.st = "polling"]
    /\ effects' = <<>>
    /\ ret' = Called("hotkey_stores", "")
    /\ UNCHANGED <<sanVars, fileVars, uploadVars, transportVars, sessionVars,
                   last_visibility, session_task>>

\* the session task enters set_overlay_visible at its next call site and
\* loads the flag (main.rs:794): nothing more happens when it is as wanted
SessionLoads ==
    /\ session_task.st = "between"
    /\ \E site \in next_sites(session_task.site) :
        /\ site = "save" => session_task.clips < MaxClips
        /\ session_task' =
              [st |-> IF differs(visible, site_visible(site)) THEN "loaded"
                      ELSE after_call(site, TRUE),
               site |-> site,
               clips |-> session_task.clips + (IF site = "save" THEN 1 ELSE 0)]
        /\ ret' = Called("session_loads", site)
    /\ effects' = <<>>
    /\ UNCHANGED <<sanVars, fileVars, uploadVars, transportVars, sessionVars,
                   visible, last_visibility, hotkey_task>>

\* the session task sends (main.rs:795)
SessionSends ==
    /\ session_task.st = "loaded"
    /\ \E sendOk \in SendAnswers(peerOpen) :
        /\ session_task' = [session_task EXCEPT
                               !.st = IF sendOk THEN "sent"
                                      ELSE after_call(session_task.site, FALSE)]
        /\ last_visibility' = IF sendOk THEN <<site_visible(session_task.site)>>
                              ELSE last_visibility
        /\ effects' = IF sendOk THEN <<Ev("set_visibility", 0, 0)>> ELSE <<>>
        /\ ret' = [Called("session_sends", session_task.site) EXCEPT !.ok = sendOk]
    /\ UNCHANGED <<sanVars, fileVars, uploadVars, transportVars, sessionVars,
                   visible, hotkey_task>>

\* the session task stores what it sent (main.rs:796)
SessionStores ==
    /\ session_task.st = "sent"
    /\ visible' = site_visible(session_task.site)
    /\ session_task' = [session_task EXCEPT !.st = after_call(session_task.site, TRUE)]
    /\ effects' = <<>>
    /\ ret' = Called("session_stores", session_task.site)
    /\ UNCHANGED <<sanVars, fileVars, uploadVars, transportVars, sessionVars,
                   last_visibility, hotkey_task>>

NextVisible ==
    \/ OverlayCloses
    \/ HotkeyLoads
    \/ HotkeySends
    \/ HotkeyStores
    \/ SessionLoads
    \/ SessionSends
    \/ SessionStores

SpecVisible == InitVisible /\ [][NextVisible]_vars

\* neither thread is between its load and its store
Quiescent ==
    /\ hotkey_task.st = "polling"
    /\ session_task.st \in {"between", "done", "failed"}

\* C39: whenever the hotkey listener and the session task are both outside
\* their load-send-store sequence, the shared visible flag equals the
\* visibility carried by the last set-visibility command sent to the peer.
C39_FlagIsLastVisibility ==
    (Quiescent /\ last_visibility # <<>>) => visible = last_visibility[1]

\* --------------------------------------------------------------- SpecExit
\* The end of a session: the loop of SpecDispatch without saves and without
\* the recorder's own exit, under the scheduling the runtime gives.  The
\* worker is a blocking thread of its own (main.rs:195-199), so a read that
\* can return does return; the select of main.rs:225 picks among its ready
\* arms at random, so the arm of a finished worker is taken although ticks
\* keep falling due.
NextExit ==
    \/ PeerSends
    \/ PeerCloses
    \/ WorkerReads
    \/ Join
    \/ Tick

SpecExit ==
    /\ InitDispatch
    /\ [][NextExit]_vars
    /\ WF_vars(WorkerReads)
    /\ WF_vars(Join)

\* the worker has read the end of the stream
CloseObserved ==
    /\ ~peerOpen /\ worker.st = "done" /\ worker.seen # <<>>
    /\ worker.seen[Len(worker.seen)] = "eof"

\* C40: once the peer has closed its stream the loop eventually returns
\* Exit, whatever ticks fall due in between, and from the moment the worker
\* has read the end of the stream no action is handled: the only join left
\* is the one that returns Exit.
C40_ExitAfterClose ==
    /\ (~peerOpen) ~> (pc = "exit")
    /\ [][CloseObserved => (ret'.op = "join" => pc' = "exit")]_vars
====
